---- MODULE Spec2Model ----
(***************************************************************************)
(* Model of the Car-Chatbot RAG pipeline.                                  *)
(*                                                                         *)
(* Part 1: the index store (data_processing/vectorizer.py, VectorIndex)    *)
(*         and the query side (rag/search.py).                             *)
(*                                                                         *)
(* A text is a small integer; the embedding model is a deterministic map   *)
(* from texts to one-dimensional vectors.  The ANN structure is the        *)
(* inverted-file index of the code (IndexIVFFlat over a flat L2            *)
(* quantizer): nlist centroids, every vector in the list of its nearest    *)
(* centroid, nprobe lists scanned per query.  The persisted store is the   *)
(* directory vector_store_path with the file faiss.index and the           *)
(* storage-context files (docstore, index store), called meta here.        *)
(*                                                                         *)
(* Part 2: the chat turn (frontend/app.py, RAGCarChatbotApp.run) with the  *)
(*         assistant (rag/ask_llm.py) and the LLM calls                     *)
(*         (rag/llm_connector.py).                                         *)
(*                                                                         *)
(* Part 3: the chunker (data_processing/text_chunker.py): tag detection,   *)
(*         the merge loop and the recursive character splitter.            *)
(*                                                                         *)
(* In parts 2 and 3 a string is a sequence of characters.                  *)
(***************************************************************************)
EXTENDS Integers, Sequences, FiniteSets, TLC

\* ---------------------------------------------------------------- bounds
MaxNodes == 2
MaxBuilds == 2
MaxTopK == 2
MaxTurns == 2
MaxResults == 2
MaxDocNodes == 3
MaxWords == 2
SmallMin == 8
SmallMax == 14
SmallOverlap == 3
MaxDirFiles == 2
MaxSegments == 3
ContextWords == 2
MaxDim == 2
MaxWriters == 2

\* ------------------------------------------------------ program constants
DefaultNlist == 256
DefaultNprobe == 16
SIMILARITY_TOP_K == 5
IVF_NPROBE == 16
EMBEDDING_DIM == 768
MIN_CHUNK_SIZE == 250
MAX_CHUNK_SIZE == 1500
CHUNK_OVERLAP == 150

\* The values a caller passes for embedding_dim, and the length of the
\* vectors the embedding model produces: the program only compares the two,
\* so one model dimension with smaller and equal arguments covers the cases.
Dims == 1..MaxDim
ModelDim == MaxDim

\* The values a caller passes for ivf_nlist and ivf_nprobe.
NlistChoices == {1, 2, DefaultNlist}
NprobeChoices == {1, DefaultNprobe}

\* Chunk texts.
Texts == {0, 1}

\* Python's None as an index; an absent and an unreadable file.
None == [kind |-> "None"]
NoFile == [kind |-> "NoFile"]
Corrupt == [kind |-> "Corrupt"]

RECURSIVE SeqsUpTo(_, _)
SeqsUpTo(S, n) ==
    IF n = 0 THEN {<<>>}
    ELSE LET shorter == SeqsUpTo(S, n - 1)
         IN shorter \cup {Append(s, x) : s \in {t \in shorter : Len(t) = n - 1}, x \in S}

\* The chunk lists handed to a build.  RichCorpora: every list of up to
\* MaxNodes texts.  Corpora: one list of each length, with differing texts.
RichCorpora == SeqsUpTo(Texts, MaxNodes)
Corpora == {[i \in 1..n |-> (n + i) % 2] : n \in 0..MaxNodes}

\* node.get_content() of the i-th node; its node id is its position.
NodeIds(nodes) == [i \in 1..Len(nodes) |-> i]

\* embed_model.get_text_embedding: a fixed map from text to vector.
Embed(t) == 2 * t + 1

Embeddings(nodes) == [i \in 1..Len(nodes) |-> Embed(nodes[i])]

\* squared Euclidean distance (faiss.METRIC_L2)
L2(a, b) == (a - b) * (a - b)

Min(a, b) == IF a < b THEN a ELSE b

\* ------------------------------------------------------------- the state
\* embed_model  self.embed_model is not None (the model initialized)
\* ivf_nlist    self.ivf_nlist
\* ivf_nprobe   self.ivf_nprobe
\* store        the directory vector_store_path on disk
\* nbuilds      the builds started so far; a build's number tags what it writes
\* call         the last build_or_load_index call: its arguments, what it did
\*              and what it returned
\* loadLog      the (cause, returned value) pairs of the loads done by this
\*              VectorIndex
\* search       the last search_in_index call
VARIABLES embed_model, ivf_nlist, ivf_nprobe, store, nbuilds, call, loadLog, search

\* embedding_dim  self.embedding_dim
\* dim_warned     the construction of the VectorIndex logged the warning that
\*                the embedding_dim given differs from the detected one
VARIABLES embedding_dim, dim_warned

\* app_index        the chat application holds an index (self.index is not None)
\* chat_history     st.session_state.chat_history
\* interaction_log  the number of lines of the interaction log file
\* turn             the last execution of RAGCarChatbotApp.run
\* chunker          the last call on the MarkdownChunker
VARIABLES app_index, chat_history, interaction_log, turn, chunker

\* processor        the last call on the MarkdownImageProcessor
VARIABLES processor

\* writers          the processes running _create_index on the store at the
\*                  same time: where each one is and the index it built
VARIABLES writers

vars == <<embed_model, ivf_nlist, ivf_nprobe, store, nbuilds, call, loadLog, search,
          embedding_dim, dim_warned,
          app_index, chat_history, interaction_log, turn, chunker, processor, writers>>
indexVars == <<embed_model, ivf_nlist, ivf_nprobe, store, nbuilds, call, loadLog,
               embedding_dim, dim_warned>>
dimVars == <<embedding_dim, dim_warned>>
chatVars == <<app_index, chat_history, interaction_log, turn>>
appVars == <<app_index, chat_history, interaction_log, turn, chunker, processor, writers>>

\* ------------------------------------------------------ the ANN structure
\* faiss.IndexIVFFlat(quantizer, dim, nlist, METRIC_L2) with nprobe set:
\* untrained, empty.  build is the number of the build that made it.
NewIvf(b, dim, nlist, nprobe) ==
    [kind |-> "ivf", build |-> b, d |-> dim, nlist |-> nlist, nprobe |-> nprobe,
     is_trained |-> FALSE, ntotal |-> 0, quantizer |-> <<>>, invlists |-> <<>>]

\* faiss_index.train raises when the vectors it gets do not have the
\* dimension of the structure.
DimRaises(fi, dim) == fi.d # dim

\* faiss_index.train raises when it gets fewer points than clusters.
TrainRaises(n, nlist) == n < nlist

\* The centroids k-means may return: the points themselves when there are
\* exactly nlist of them, otherwise any nlist of the values trained on.
CentroidChoices(embs, nlist) ==
    IF Len(embs) = nlist THEN {embs}
    ELSE [1..nlist -> {embs[i] : i \in 1..Len(embs)}]

Train(fi, cents) ==
    [fi EXCEPT !.is_trained = TRUE, !.quantizer = cents,
               !.invlists = [c \in 1..Len(cents) |-> <<>>]]

\* The quantizer's assignment: the nearest centroid, the first on a tie.
NearestList(cents, v) ==
    CHOOSE c \in 1..Len(cents) :
        \A d \in 1..Len(cents) :
            \/ L2(cents[c], v) < L2(cents[d], v)
            \/ L2(cents[c], v) = L2(cents[d], v) /\ c <= d

\* faiss_index.add of one vector: it gets id ntotal and goes to its list.
AddVector(fi, v) ==
    LET c == NearestList(fi.quantizer, v)
    IN [fi EXCEPT !.ntotal = @ + 1,
                  !.invlists[c] = Append(@, [id |-> fi.ntotal, vec |-> v])]

RECURSIVE AddAll(_, _)
AddAll(fi, embs) ==
    IF embs = <<>> THEN fi
    ELSE AddAll(AddVector(fi, Head(embs)), Tail(embs))

\* The lists a query scans: the min(nprobe, nlist) nearest centroids.
ProbedLists(fi, qv) ==
    LET n == Len(fi.quantizer)
        closer(d, c) == \/ L2(fi.quantizer[d], qv) < L2(fi.quantizer[c], qv)
                        \/ L2(fi.quantizer[d], qv) = L2(fi.quantizer[c], qv) /\ d < c
    IN {c \in 1..n : Cardinality({d \in 1..n : closer(d, c)}) < Min(fi.nprobe, n)}

\* faiss_index.search(qv, k): the ids of the k nearest scanned vectors with
\* their distances, nearest first (ties by id).
FaissSearch(fi, qv, k) ==
    LET lists == ProbedLists(fi, qv)
        cand == UNION {{fi.invlists[c][i] : i \in 1..Len(fi.invlists[c])} : c \in lists}
        before(e, f) == \/ L2(e.vec, qv) < L2(f.vec, qv)
                        \/ L2(e.vec, qv) = L2(f.vec, qv) /\ e.id < f.id
        rank(e) == Cardinality({f \in cand : before(f, e)})
        n == Min(k, Cardinality(cand))
    IN [r \in 1..n |->
           LET e == CHOOSE f \in cand : rank(f) = r - 1
           IN [id |-> e.id, score |-> L2(e.vec, qv)]]

\* --------------------------------------------------- index and its files
\* The storage context of a built index: the index store's map from faiss
\* position to node id, and the docstore's nodes.
NewMeta(b, nodes) ==
    [kind |-> "meta", build |-> b, nodes_dict |-> NodeIds(nodes), docstore |-> nodes]

\* A VectorStoreIndex: the faiss structure and the storage context it holds.
MkIndex(fi, meta) == [kind |-> "index", faiss |-> fi, meta |-> meta]

\* write_index with the header's nprobe left at the library default.
write_index_default_nprobe(fi) ==
    [kind |-> "faiss.index", build |-> fi.build, d |-> fi.d, nlist |-> fi.nlist,
     nprobe |-> 1, is_trained |-> fi.is_trained, ntotal |-> fi.ntotal,
     quantizer |-> fi.quantizer, invlists |-> fi.invlists]

\* faiss.write_index: the file holds the header (nlist, nprobe, is_trained,
\* ntotal), the quantizer and the inverted lists.
write_index(fi) ==
    [kind |-> "faiss.index", build |-> fi.build, d |-> fi.d, nlist |-> fi.nlist,
     nprobe |-> fi.nprobe, is_trained |-> fi.is_trained, ntotal |-> fi.ntotal,
     quantizer |-> fi.quantizer, invlists |-> fi.invlists]

\* faiss.read_index
read_index(f) ==
    [kind |-> "ivf", build |-> f.build, d |-> f.d, nlist |-> f.nlist, nprobe |-> f.nprobe,
     is_trained |-> f.is_trained, ntotal |-> f.ntotal,
     quantizer |-> f.quantizer, invlists |-> f.invlists]

\* index.storage_context.persist: docstore.json and index_store.json
persist(meta) ==
    [kind |-> "storage", build |-> meta.build, index_store |-> meta.nodes_dict,
     docstore |-> meta.docstore]

\* StorageContext.from_defaults(persist_dir) and load_index_from_storage
load_index_from_storage(f) ==
    [kind |-> "meta", build |-> f.build, nodes_dict |-> f.index_store,
     docstore |-> f.docstore]

EmptyStore == [dir |-> FALSE, faiss |-> NoFile, meta |-> NoFile]

FaissReadable(st) == st.faiss.kind = "faiss.index"
MetaReadable(st) == st.meta.kind = "storage"
\* A persisted index that loads: the directory with both parts readable.
ValidStore(st) == st.dir /\ FaissReadable(st) /\ MetaReadable(st)

\* retriever.retrieve(query): the faiss hits resolved to nodes through the
\* index store and the docstore; a hit the index store does not know raises.
Retrieve(idx, q, k) ==
    LET hits == FaissSearch(idx.faiss, Embed(q), k)
        known(h) == h.id + 1 \in DOMAIN idx.meta.nodes_dict
                    /\ idx.meta.nodes_dict[h.id + 1] \in DOMAIN idx.meta.docstore
    IN IF \E r \in DOMAIN hits : ~known(hits[r])
       THEN [raised |-> TRUE, nodes |-> <<>>]
       ELSE [raised |-> FALSE,
             nodes |-> [r \in DOMAIN hits |->
                          [node_id |-> idx.meta.nodes_dict[hits[r].id + 1],
                           text |-> idx.meta.docstore[idx.meta.nodes_dict[hits[r].id + 1]],
                           score |-> hits[r].score]]]

\* ------------------------------------------------------------ _load_index
\* A VectorIndex object: the fields the methods read.
Self ==
    [embed_model |-> embed_model, ivf_nlist |-> ivf_nlist, ivf_nprobe |-> ivf_nprobe,
     embedding_dim |-> embedding_dim]

\* ------------------------------------------------ _initialize_embed_model
\* _initialize_embed_model leaving self.embedding_dim as it was given.
_initialize_embed_model_uncorrected(given, dim, ok) ==
    [embed_model |-> ok, embedding_dim |-> given, warned |-> ok /\ dim # given]

\* _initialize_embed_model() of a VectorIndex made with embedding_dim =
\* given, for a model whose vectors have dim entries: ok is FALSE when the
\* model cannot be loaded or the test embedding raises.  The result:
\* whether self.embed_model is a model, self.embedding_dim, and whether the
\* warning of line 65 was logged.
_initialize_embed_model(given, dim, ok) ==
    IF ~ok THEN [embed_model |-> FALSE, embedding_dim |-> given, warned |-> FALSE]
    ELSE [embed_model |-> TRUE, embedding_dim |-> IF dim # given THEN dim ELSE given,
          warned |-> dim # given]

\* _load_index starting an empty storage context when the persisted one
\* cannot be read.
_load_index_tolerant(self, st) ==
    IF ~self.embed_model THEN [ret |-> None, cause |-> "no_model"]
    ELSE IF ~FaissReadable(st) THEN
        [ret |-> None, cause |-> IF st.faiss = NoFile THEN "no_faiss" ELSE "bad_faiss"]
    ELSE IF ~MetaReadable(st) THEN
        [ret |-> MkIndex(read_index(st.faiss), NewMeta(0, <<>>)), cause |-> "bad_meta"]
    ELSE [ret |-> MkIndex(read_index(st.faiss), load_index_from_storage(st.meta)),
          cause |-> "ok"]

\* What _load_index returns for the store st, and why.
_load_index(self, st) ==
    IF ~self.embed_model THEN [ret |-> None, cause |-> "no_model"]
    ELSE IF ~FaissReadable(st) THEN
        [ret |-> None, cause |-> IF st.faiss = NoFile THEN "no_faiss" ELSE "bad_faiss"]
    ELSE IF ~MetaReadable(st) THEN [ret |-> None, cause |-> "bad_meta"]
    ELSE [ret |-> MkIndex(read_index(st.faiss), load_index_from_storage(st.meta)),
          cause |-> "ok"]

\* ---------------------------------------------------------- _create_index
\* One way _create_index can end: what it returns, the store it leaves, the
\* embedding batches it computed, whether training ran to its end, the files
\* it wrote, and the step that raised ("none": no step did).
Outcome(ret, st, embeds, trained, wrote, fault) ==
    [ret |-> ret, store |-> st, embeds |-> embeds, trained |-> trained,
     wrote |-> wrote, fault |-> fault]

\* The steps after training with the trained structure written to
\* faiss.index before the nodes are inserted.
AfterTrainWriteFirst(st, nodes, fi) ==
    LET full == AddAll(fi, Embeddings(nodes))
        meta == NewMeta(fi.build, nodes)
        st1 == [st EXCEPT !.faiss = write_index(fi)]
        st2 == [st1 EXCEPT !.meta = persist(meta)]
        st3 == [st2 EXCEPT !.faiss = write_index(full)]
    IN {Outcome(None, st1, 2, TRUE, {"faiss"}, "insert")}
       \cup {Outcome(None, [st1 EXCEPT !.meta = m], 2, TRUE, {"faiss", "meta"}, "persist")
             : m \in {st.meta, Corrupt, persist(meta)}}
       \cup {Outcome(None, [st2 EXCEPT !.faiss = f], 2, TRUE, {"meta", "faiss"}, "write_index")
             : f \in {st1.faiss, Corrupt}}
       \cup {Outcome(MkIndex(full, meta), st3, 2, TRUE, {"meta", "faiss"}, "none")}

\* Lines 144-158, after training: VectorStoreIndex(nodes) embeds the nodes
\* and adds them, persist writes the storage context, write_index writes
\* faiss.index.  Each step may raise; a write that raises leaves the file as
\* it was, or cut short, or (persist, which writes several files) complete.
AfterTrain(st, nodes, fi) ==
    LET full == AddAll(fi, Embeddings(nodes))
        meta == NewMeta(fi.build, nodes)
        st2 == [st EXCEPT !.meta = persist(meta)]
        st3 == [st2 EXCEPT !.faiss = write_index(full)]
    IN {Outcome(None, st, 2, TRUE, {}, "insert")}
       \cup {Outcome(None, [st EXCEPT !.meta = m], 2, TRUE,
                     IF m = st.meta THEN {} ELSE {"meta"}, "persist")
             : m \in {st.meta, Corrupt, persist(meta)}}
       \cup {Outcome(None, [st2 EXCEPT !.faiss = f], 2, TRUE,
                     IF f = st.faiss THEN {"meta"} ELSE {"meta", "faiss"}, "write_index")
             : f \in {st.faiss, Corrupt}}
       \cup {Outcome(MkIndex(full, meta), st3, 2, TRUE, {"meta", "faiss"}, "none")}

\* _create_index creating the store directory before it looks at nodes.
_create_index_mkdir_first(self, st, nodes, b) ==
    IF ~self.embed_model THEN {Outcome(None, st, 0, FALSE, {}, "no_model")}
    ELSE
        LET st1 == [st EXCEPT !.dir = TRUE]
            embs == Embeddings(nodes)
            fi == NewIvf(b, self.embedding_dim, self.ivf_nlist, self.ivf_nprobe)
        IN IF nodes = <<>> THEN {Outcome(None, st1, 0, FALSE, {}, "no_nodes")}
           ELSE {Outcome(None, st1, 0, FALSE, {}, "embed")}
                \cup IF DimRaises(fi, ModelDim)
                     THEN {Outcome(None, st1, 1, FALSE, {}, "train_dim")}
                     ELSE IF TrainRaises(Len(embs), self.ivf_nlist)
                     THEN {Outcome(None, st1, 1, FALSE, {}, "train_too_few")}
                     ELSE {Outcome(None, st1, 1, FALSE, {}, "train")}
                          \cup UNION {AfterTrain(st1, nodes, Train(fi, cents))
                                      : cents \in CentroidChoices(embs, self.ivf_nlist)}

\* _create_index(nodes) as build number b on the store st: the set of ways
\* it can end.
_create_index(self, st, nodes, b) ==
    IF ~self.embed_model THEN {Outcome(None, st, 0, FALSE, {}, "no_model")}
    ELSE IF nodes = <<>> THEN {Outcome(None, st, 0, FALSE, {}, "no_nodes")}
    ELSE
        LET st1 == [st EXCEPT !.dir = TRUE]
            embs == Embeddings(nodes)
            fi == NewIvf(b, self.embedding_dim, self.ivf_nlist, self.ivf_nprobe)
        IN {Outcome(None, st1, 0, FALSE, {}, "embed")}
           \cup IF DimRaises(fi, ModelDim)
                THEN {Outcome(None, st1, 1, FALSE, {}, "train_dim")}
                ELSE IF TrainRaises(Len(embs), self.ivf_nlist)
                THEN {Outcome(None, st1, 1, FALSE, {}, "train_too_few")}
                ELSE {Outcome(None, st1, 1, FALSE, {}, "train")}
                     \cup UNION {AfterTrain(st1, nodes, Train(fi, cents))
                                 : cents \in CentroidChoices(embs, self.ivf_nlist)}

\* ---------------------------------------------------- build_or_load_index
IdleCall ==
    [op |-> "idle", self |-> Self, nodes |-> <<>>, force |-> FALSE, pre |-> EmptyStore,
     loadTried |-> FALSE, createCalled |-> FALSE, build |-> 0, ret |-> None,
     embeds |-> 0, trained |-> FALSE, wrote |-> {}, fault |-> "none"]

\* The load attempted whenever the store directory exists.
ShouldTryLoadIgnoringForce(force, st) == st.dir

\* Line 175: the load is attempted unless a rebuild is forced, when the
\* store directory exists.
ShouldTryLoad(force, st) == ~force /\ st.dir

\* The build run after a successful load too.
FallsThroughAlways(lr) == TRUE

\* The build run only when no load was attempted.
FallsThroughUntried(lr) == lr.cause = "not_tried"

\* Line 178: the build runs when no index was loaded.
FallsThrough(lr) == lr.ret = None

\* self.build_or_load_index(nodes, force_reindex)
build_or_load_index(self, nodes, force) ==
    LET base == [IdleCall EXCEPT !.op = "build_or_load", !.self = self, !.nodes = nodes,
                                 !.force = force, !.pre = store]
    IN IF ~self.embed_model
       THEN /\ call' = [base EXCEPT !.fault = "no_model"]
            /\ UNCHANGED <<store, nbuilds, loadLog>>
       ELSE
         LET tried == ShouldTryLoad(force, store)
             lr == IF tried THEN _load_index(self, store)
                   ELSE [ret |-> None, cause |-> "not_tried"]
         IN /\ loadLog' = IF tried
                          THEN loadLog \cup {[cause |-> lr.cause, ret |-> lr.ret.kind]}
                          ELSE loadLog
            /\ IF ~FallsThrough(lr)
               THEN /\ call' = [base EXCEPT !.loadTried = tried, !.ret = lr.ret]
                    /\ UNCHANGED <<store, nbuilds>>
               ELSE \E o \in _create_index(self, store, nodes, nbuilds + 1) :
                    /\ store' = o.store
                    /\ nbuilds' = IF nodes = <<>> THEN nbuilds ELSE nbuilds + 1
                    /\ call' = [base EXCEPT !.loadTried = tried, !.createCalled = TRUE,
                                            !.build = nbuilds + 1, !.ret = o.ret,
                                            !.embeds = o.embeds, !.trained = o.trained,
                                            !.wrote = o.wrote, !.fault = o.fault]

\* A caller's build_or_load_index(nodes, force_reindex) on the VectorIndex.
BuildOrLoad ==
    /\ nbuilds < MaxBuilds
    /\ \E nodes \in Corpora, force \in BOOLEAN : build_or_load_index(Self, nodes, force)
    /\ UNCHANGED <<embed_model, ivf_nlist, ivf_nprobe, search, dimVars>>
    /\ UNCHANGED appVars

\* VectorIndex.__init__: a new VectorIndex over the same store path, with
\* an embedding_dim of the caller's choice; the embedding model initializes
\* or not.
VectorIndexInit ==
    /\ \E given \in Dims, ok \in BOOLEAN :
           LET o == _initialize_embed_model(given, ModelDim, ok)
           IN /\ embed_model' = o.embed_model
              /\ embedding_dim' = o.embedding_dim
              /\ dim_warned' = o.warned
    /\ ivf_nlist' \in NlistChoices
    /\ ivf_nprobe' \in NprobeChoices
    /\ call' = [IdleCall EXCEPT !.self = [embed_model |-> embed_model',
                                          ivf_nlist |-> ivf_nlist',
                                          ivf_nprobe |-> ivf_nprobe',
                                          embedding_dim |-> embedding_dim']]
    /\ loadLog' = {}
    /\ UNCHANGED <<store, nbuilds, search>>
    /\ UNCHANGED appVars

\* The files of the store removed from outside the program.
StoreFileRemoved ==
    /\ store.dir
    /\ \/ store.faiss # NoFile /\ store' = [store EXCEPT !.faiss = NoFile]
       \/ store.meta # NoFile /\ store' = [store EXCEPT !.meta = NoFile]
    /\ call' = IdleCall
    /\ UNCHANGED <<embed_model, ivf_nlist, ivf_nprobe, nbuilds, loadLog, search, dimVars>>
    /\ UNCHANGED appVars

\* -------------------------------------------------------- search_in_index
IdleSearch ==
    [op |-> "idle", query |-> <<>>, hasIndex |-> FALSE, top_k |-> 0,
     retrieverCalls |-> 0, retrieverRaised |-> FALSE, retrieved |-> <<>>,
     result |-> <<>>, raised |-> FALSE]

\* The values of top_k a caller passes.
TopKs == 1..MaxTopK \cup {SIMILARITY_TOP_K}

\* The query strings: the empty string, and one text.
Queries == {<<>>} \cup {<<t>> : t \in Texts}

\* search_in_index without the try/except around the retriever.
search_in_index_uncaught(query_str, index, top_k, fails) ==
    LET base == [IdleSearch EXCEPT !.op = "search", !.query = query_str,
                                   !.hasIndex = (index # None), !.top_k = top_k]
    IN IF query_str = <<>> THEN search' = base
       ELSE IF index = None THEN search' = base
       ELSE LET r == IF fails THEN [raised |-> TRUE, nodes |-> <<>>]
                     ELSE Retrieve(index, query_str[1], top_k)
            IN search' = [base EXCEPT
                   !.retrieverCalls = 1,
                   !.retrieverRaised = r.raised,
                   !.retrieved = r.nodes,
                   !.raised = r.raised,
                   !.result = IF r.raised \/ r.nodes = <<>> THEN <<>> ELSE r.nodes]

\* search_in_index(query_str, index, top_k); fails: the retriever raises
\* (the query embedding or the vector search fails).
search_in_index(query_str, index, top_k, fails) ==
    LET base == [IdleSearch EXCEPT !.op = "search", !.query = query_str,
                                   !.hasIndex = (index # None), !.top_k = top_k]
    IN IF query_str = <<>> THEN search' = base
       ELSE IF index = None THEN search' = base
       ELSE LET r == IF fails THEN [raised |-> TRUE, nodes |-> <<>>]
                     ELSE Retrieve(index, query_str[1], top_k)
            IN search' = [base EXCEPT
                   !.retrieverCalls = 1,
                   !.retrieverRaised = r.raised,
                   !.retrieved = r.nodes,
                   !.result = IF r.raised \/ r.nodes = <<>> THEN <<>> ELSE r.nodes]

\* A search on the index the last build_or_load_index call returned.
Search ==
    /\ call.op = "build_or_load"
    /\ \E q \in Queries, k \in TopKs, fails \in BOOLEAN :
           search_in_index(q, call.ret, k, fails)
    /\ UNCHANGED indexVars
    /\ UNCHANGED appVars

\* The indexing run: one build_or_load_index on a chunk corpus.
IndexBuild ==
    /\ nbuilds = 0
    /\ \E nodes \in RichCorpora, force \in BOOLEAN : build_or_load_index(Self, nodes, force)
    /\ UNCHANGED <<embed_model, ivf_nlist, ivf_nprobe, search, dimVars>>
    /\ UNCHANGED appVars

\* load_vector_index handing a chunk list to build_or_load_index.
load_vector_index_with_nodes(given, em) ==
    IF ~given
    THEN /\ call' = [IdleCall EXCEPT !.op = "build_or_load", !.pre = store,
                                     !.fault = "no_model"]
         /\ UNCHANGED <<embed_model, ivf_nlist, ivf_nprobe, store, nbuilds, loadLog, dimVars>>
    ELSE LET o == _initialize_embed_model(EMBEDDING_DIM, ModelDim, em)
         IN /\ embed_model' = o.embed_model
            /\ embedding_dim' = o.embedding_dim
            /\ dim_warned' = o.warned
            /\ ivf_nlist' = DefaultNlist
            /\ ivf_nprobe' = IVF_NPROBE
            /\ build_or_load_index([embed_model |-> o.embed_model,
                                    ivf_nlist |-> DefaultNlist, ivf_nprobe |-> IVF_NPROBE,
                                    embedding_dim |-> o.embedding_dim],
                                   CHOOSE c \in Corpora : c # <<>>, FALSE)

\* load_vector_index(embed_model): a VectorIndex with embedding_dim
\* EMBEDDING_DIM, for the same model, with the default nlist and nprobe
\* IVF_NPROBE, then build_or_load_index(nodes=[]).
load_vector_index(given, em) ==
    IF ~given
    THEN /\ call' = [IdleCall EXCEPT !.op = "build_or_load", !.pre = store,
                                     !.fault = "no_model"]
         /\ UNCHANGED <<embed_model, ivf_nlist, ivf_nprobe, store, nbuilds, loadLog, dimVars>>
    ELSE LET o == _initialize_embed_model(EMBEDDING_DIM, ModelDim, em)
         IN /\ embed_model' = o.embed_model
            /\ embedding_dim' = o.embedding_dim
            /\ dim_warned' = o.warned
            /\ ivf_nlist' = DefaultNlist
            /\ ivf_nprobe' = IVF_NPROBE
            /\ build_or_load_index([embed_model |-> o.embed_model,
                                    ivf_nlist |-> DefaultNlist, ivf_nprobe |-> IVF_NPROBE,
                                    embedding_dim |-> o.embedding_dim], <<>>, FALSE)

LoadVectorIndex ==
    /\ \E given \in BOOLEAN, em \in BOOLEAN : load_vector_index(given, em)
    /\ UNCHANGED search
    /\ UNCHANGED appVars

\* ================================================================ strings
\* A string is a sequence of characters.  LowerChar is str.lower() on one
\* character: the upper-case letters that occur in the texts of the model
\* and their lower-case forms; every other character is its own.
LowerChar(c) ==
    CASE c = "B" -> "b" [] c = "U" -> "u" [] c = "I" -> "i" [] c = "S" -> "s"
      [] c = "F" -> "f" [] c = "M" -> "m" [] c = "D" -> "d" [] c = "H" -> "h"
      [] c = "V" -> "v" [] c = "O" -> "o" [] c = "R" -> "r" [] OTHER -> c

\* str.lower()
lower(s) == [i \in 1..Len(s) |-> LowerChar(s[i])]

\* Python's  sub in s
In(sub, s) == \E i \in 0..(Len(s) - Len(sub)) : SubSeq(s, i + 1, i + Len(sub)) = sub

\* The whitespace characters: the blank and the line break.
Whitespace == {" ", "\n"}

\* str.strip()
strip(s) ==
    LET keep == {i \in 1..Len(s) : s[i] \notin Whitespace}
    IN IF keep = {} THEN <<>>
       ELSE SubSeq(s, CHOOSE i \in keep : \A j \in keep : i <= j,
                      CHOOSE i \in keep : \A j \in keep : j <= i)

\* sep.join(parts)
RECURSIVE Join(_, _)
Join(parts, sep) ==
    IF parts = <<>> THEN <<>>
    ELSE IF Len(parts) = 1 THEN parts[1]
    ELSE parts[1] \o sep \o Join(Tail(parts), sep)

\* [x for x in parts if x]
NonEmpty(parts) == SelectSeq(parts, LAMBDA x : x # <<>>)

\* An optional string that is present.
Some(s) == [kind |-> "Some", v |-> s]

\* ============================================================ the LLM calls
\* LLMConnector.generate_answer(prompt): the service answers with a text or
\* the call raises; nothing in generate_answer catches.
Raises == [raised |-> TRUE, text |-> <<>>]
Says(t) == [raised |-> FALSE, text |-> t]

\* The two fallback phrases of run, "Based on the provided context, I am
\* unable to provide an answer." and "I'm sorry, but I couldn't find enough
\* context to answer your question.", each shortened to two characters.
fallback_responses == << <<"B", "u">>, <<"I", "s">> >>

\* The fixed messages of get_answer and run.
NoPromptMsg == <<"N", "o">>
LlmErrorMsg == <<"E", "r">>
NoInfoMsg == <<"S", "o">>

\* The separators of get_answer: between chunks in the prompt, and between
\* chunks in the returned context.
PromptSeparator == <<"\n">>
ChunkSeparator == <<"\n", "-", "\n">>

\* ------------------------------------------------------------ CarAssistant
\* _build_prompt: the empty string without nodes, the prompt template
\* filled with the context and the question otherwise.
_build_prompt_without_guard(nodes, query) ==
    <<"C">> \o Join(NonEmpty(nodes), PromptSeparator) \o <<"Q">> \o query

_build_prompt(nodes, query) ==
    IF nodes = <<>> THEN <<>>
    ELSE <<"C">> \o Join(NonEmpty(nodes), PromptSeparator) \o <<"Q">> \o query

\* get_answer with the LLM call outside the try block.
get_answer_uncaught(nodes, query, llm) ==
    LET prompt == _build_prompt(nodes, query)
    IN IF prompt = <<>>
       THEN [answer |-> NoPromptMsg, chunks |-> <<>>, llm_calls |-> 0, llm_raised |-> FALSE,
             raised |-> FALSE]
       ELSE IF llm.raised
       THEN [answer |-> <<>>, chunks |-> <<>>, llm_calls |-> 1, llm_raised |-> TRUE,
             raised |-> TRUE]
       ELSE [answer |-> llm.text, chunks |-> Join(NonEmpty(nodes), ChunkSeparator),
             llm_calls |-> 1, llm_raised |-> FALSE, raised |-> FALSE]

\* get_answer() on an assistant holding nodes and query; llm is what the
\* LLM call does when it is made.
get_answer(nodes, query, llm) ==
    LET prompt == _build_prompt(nodes, query)
    IN IF prompt = <<>>
       THEN [answer |-> NoPromptMsg, chunks |-> <<>>, llm_calls |-> 0, llm_raised |-> FALSE,
             raised |-> FALSE]
       ELSE IF llm.raised
       THEN [answer |-> LlmErrorMsg, chunks |-> <<>>, llm_calls |-> 1, llm_raised |-> TRUE,
             raised |-> FALSE]
       ELSE [answer |-> llm.text, chunks |-> Join(NonEmpty(nodes), ChunkSeparator),
             llm_calls |-> 1, llm_raised |-> FALSE, raised |-> FALSE]

\* --------------------------------------------------- RAGCarChatbotApp.run
\* st.chat_input gives None when nothing was submitted, and the submitted
\* text otherwise.
NoQuery == <<>>
UserQueries == {<<"q">>}

\* What the LLM answers to the rewrite prompt, to the search-optimization
\* prompt and to the answer prompt.
RewriteOutcomes == {Raises, Says(<<"w">>), Says(<<" ", "w", "\n">>)}
OptimizeOutcomes == {Raises, Says(<<>>), Says(<<"s">>)}
LLMAnswers == {<<"o", "k">>, <<"o", "b", "U", "k">>, <<"I", "s">>, <<"B", "o", "u">>}
AnswerOutcomes == {Raises} \cup {Says(a) : a \in LLMAnswers}

\* What the retriever gives for a non-empty query on an index: it raises,
\* or it yields the first n chunks, n up to MaxResults.  The text of a
\* chunk is never empty.
ChunkText(i) == [j \in 1..i |-> "c"]
RetrieverOutcomes ==
    {[raised |-> TRUE, nodes |-> <<>>]}
    \cup {[raised |-> FALSE, nodes |-> [i \in 1..n |-> ChunkText(i)]] : n \in 0..MaxResults}

\* search_in_index(query_str, index) as run sees it: the list returned.
search_results(query_str, index, r) ==
    IF query_str = <<>> \/ ~index \/ r.raised THEN <<>> ELSE r.nodes

IdleTurn ==
    [op |-> "idle", query |-> NoQuery, preLen |-> 0, trace |-> <<>>, seen |-> <<>>,
     standalone |-> <<>>, statement |-> <<>>, results |-> <<>>, answer |-> <<>>,
     retrieved_chunks |-> None, failed |-> {}, raised |-> FALSE, cause |-> "none",
     logged |-> FALSE, searched |-> None, asked |-> None]

\* _get_chat_history_for_prompt(last_n): the last 2 * last_n messages.
_get_chat_history_for_prompt(h, last_n) ==
    IF Len(h) <= 2 * last_n THEN h ELSE SubSeq(h, Len(h) - 2 * last_n + 1, Len(h))

\* _get_standalone_query asking the LLM whatever the history is.
_get_standalone_query_always_llm(h, current_query, llm) ==
    LET seen == _get_chat_history_for_prompt(h, 3)
    IN IF llm.raised THEN [raised |-> TRUE, text |-> <<>>, calls |-> 1, seen |-> seen]
       ELSE [raised |-> FALSE, text |-> strip(llm.text), calls |-> 1, seen |-> seen]

\* _get_standalone_query(current_query) with the history h.
_get_standalone_query(h, current_query, llm) ==
    IF h = <<>>
    THEN [raised |-> FALSE, text |-> current_query, calls |-> 0, seen |-> <<>>]
    ELSE LET seen == _get_chat_history_for_prompt(h, 3)
         IN IF llm.raised THEN [raised |-> TRUE, text |-> <<>>, calls |-> 1, seen |-> seen]
            ELSE [raised |-> FALSE, text |-> strip(llm.text), calls |-> 1, seen |-> seen]

\* The fallback test comparing the answer as it is written.
IsFallbackCaseSensitive(answer) ==
    \E i \in DOMAIN fallback_responses : In(fallback_responses[i], answer)

\* Lines 136: any(fallback.lower() in answer.lower() for fallback in ...)
IsFallback(answer) ==
    \E i \in DOMAIN fallback_responses : In(lower(fallback_responses[i]), lower(answer))

\* Line 148: retrieved_chunks if retrieved_chunks else None
StoredChunks(rc) == IF rc = None THEN None ELSE IF rc.v = <<>> THEN None ELSE rc

UserMessage(query) == [role |-> "user", content |-> query]
AssistantMessage(answer, rc) ==
    [role |-> "assistant", content |-> answer, chunks |-> StoredChunks(rc)]

\* The search made with the words of the user.
SearchArgumentRawQuery(query, standalone_query, query_to_statement) == query

\* Line 122: search_in_index(query_str=query_to_statement, index=self.index)
SearchArgument(query, standalone_query, query_to_statement) == query_to_statement

\* run(): h0 the chat history, index whether the application holds an
\* index, query the chat input; rw, opt, ans what the three LLM calls do,
\* r what the retriever does, log_fails whether the log file cannot be
\* written.  The result: the history afterwards, the number of log lines
\* written, and the record of the turn.
run(h0, index, query, rw, opt, r, ans, log_fails) ==
    LET base == [IdleTurn EXCEPT !.op = "run", !.query = query, !.preLen = Len(h0)]
        sq == _get_standalone_query(h0, query, rw)
        t1 == [base EXCEPT !.trace = IF sq.calls = 1 THEN <<"llm_rewrite">> ELSE <<>>,
                           !.seen = sq.seen, !.standalone = sq.text]
        t2 == [t1 EXCEPT !.trace = Append(@, "llm_optimize")]
    IN IF sq.raised
       THEN [history |-> h0, logged |-> 0,
             turn |-> [t1 EXCEPT !.failed = {"llm_rewrite"}, !.raised = TRUE,
                               !.cause = "llm_rewrite"]]
       ELSE IF opt.raised
       THEN [history |-> h0, logged |-> 0,
             turn |-> [t2 EXCEPT !.failed = {"llm_optimize"}, !.raised = TRUE,
                               !.cause = "llm_optimize"]]
       ELSE IF query = NoQuery
       THEN [history |-> h0, logged |-> 0, turn |-> [t2 EXCEPT !.statement = opt.text]]
       ELSE
         LET h1 == Append(h0, UserMessage(query))
             query_str == SearchArgument(query, sq.text, opt.text)
             results == search_results(query_str, index, r)
             t3 == [t2 EXCEPT !.statement = opt.text, !.results = results,
                              !.searched = Some(query_str),
                              !.trace = @ \o <<"append_user", "search">>]
         IN IF results = <<>>
            THEN [history |-> Append(h1, AssistantMessage(NoInfoMsg, None)), logged |-> 0,
                  turn |-> [t3 EXCEPT !.answer = NoInfoMsg,
                                      !.trace = Append(@, "append_assistant")]]
            ELSE
              LET ga == get_answer(results, sq.text, ans)
                  t4 == [t3 EXCEPT !.trace = @ \o (IF ga.llm_calls = 1
                                                   THEN <<"get_answer", "llm_answer">>
                                                   ELSE <<"get_answer">>),
                                   !.failed = IF ga.llm_raised THEN {"llm_answer"} ELSE {},
                                   !.asked = Some(sq.text)]
                  rc == IF IsFallback(ga.answer) THEN None ELSE Some(ga.chunks)
                  t5 == [t4 EXCEPT !.answer = ga.answer, !.retrieved_chunks = rc,
                                   !.trace = Append(@, "log")]
              IN IF ga.raised
                 THEN [history |-> h1, logged |-> 0,
                       turn |-> [t4 EXCEPT !.raised = TRUE, !.cause = "llm_answer"]]
                 ELSE IF log_fails
                 THEN [history |-> h1, logged |-> 0,
                       turn |-> [t5 EXCEPT !.failed = @ \cup {"log"}, !.raised = TRUE,
                                           !.cause = "log"]]
                 ELSE [history |-> Append(h1, AssistantMessage(ga.answer, rc)),
                       logged |-> 1,
                       turn |-> [t5 EXCEPT !.logged = TRUE,
                                           !.trace = Append(@, "append_assistant")]]

\* One execution of the script: run() with or without a chat input.  An
\* outcome is drawn for a call only where the call can be reached: the
\* rewrite with a history, the retriever with an input, a statement and an
\* index, the answer and the log with retrieved chunks.
Run ==
    /\ Len(chat_history) < 2 * MaxTurns
    /\ \E query \in {NoQuery} \cup UserQueries, opt \in OptimizeOutcomes,
          rw \in (IF chat_history = <<>> THEN {Raises} ELSE RewriteOutcomes) :
       \E r \in (IF query = NoQuery \/ opt.text = <<>> \/ ~app_index
                 THEN {[raised |-> TRUE, nodes |-> <<>>]} ELSE RetrieverOutcomes) :
       \E ans \in (IF r.nodes = <<>> THEN {Raises} ELSE AnswerOutcomes),
          log_fails \in (IF r.nodes = <<>> THEN {FALSE} ELSE BOOLEAN) :
          LET o == run(chat_history, app_index, query, rw, opt, r, ans, log_fails)
          IN /\ chat_history' = o.history
             /\ interaction_log' = interaction_log + o.logged
             /\ turn' = o.turn
    /\ UNCHANGED <<app_index, chunker, processor, writers>>
    /\ UNCHANGED <<indexVars, search>>

\* ------------------------------------------------------- MarkdownChunker
\* The known tags of _extract_model_name, in the order of the list.
FordMustang == <<"F", "o", "r", "d", " ", "M", "u", "s", "t", "a", "n", "g">>
DaewooMatiz == <<"D", "a", "e", "w", "o", "o", " ", "M", "a", "t", "i", "z">>
Honda == <<"H", "o", "n", "d", "a">>
Subaru == <<"S", "u", "b", "a", "r", "u">>
Ford == <<"F", "o", "r", "d">>
Volkswagen == <<"V", "o", "l", "k", "s", "w", "a", "g", "e", "n">>
known_models == <<FordMustang, DaewooMatiz, Honda, Subaru, Ford, Volkswagen>>

\* str.replace(a, b) for single characters
replace(s, a, b) == [i \in 1..Len(s) |-> IF s[i] = a THEN b ELSE s[i]]

\* The positions of known_models whose tag occurs in the text or in the
\* normalized file name.
ModelHits(text, filename) ==
    LET text_norm == lower(text)
        fn_norm == replace(replace(lower(filename), "-", " "), "_", " ")
    IN {i \in DOMAIN known_models :
            In(lower(known_models[i]), text_norm) \/ In(lower(known_models[i]), fn_norm)}

\* _extract_model_name returning the last tag of the list that occurs.
_extract_model_name_last_match(text, filename) ==
    LET hits == ModelHits(text, filename)
    IN IF hits = {} THEN Volkswagen
       ELSE known_models[CHOOSE i \in hits : \A j \in hits : j <= i]

\* _extract_model_name(text, filename)
_extract_model_name(text, filename) ==
    LET hits == ModelHits(text, filename)
    IN IF hits = {} THEN Volkswagen
       ELSE known_models[CHOOSE i \in hits : \A j \in hits : i <= j]

\* The blank line put between merged node texts and after the tag line.
BlankLine == <<"\n", "\n">>

\* A buffer closed at every node, whatever its length.
ShouldAppendNever(buffer_text, min_chunk_size) == FALSE

\* Line 81: the node is appended to a buffer shorter than the minimum.
ShouldAppend(buffer_text, min_chunk_size) == Len(buffer_text) < min_chunk_size

\* A merged buffer taking the metadata of the node appended last.
MergedMetaLatest(buffer_meta, node_meta) == node_meta

\* Line 82: appending leaves buffer_meta as it is.
MergedMeta(buffer_meta, node_meta) == buffer_meta

\* Lines 71-89, from node i on: nodes the parsed nodes, each with its text
\* and its metadata; buffer_text and buffer_meta the open buffer; merged the
\* buffers closed so far, each with the positions of the nodes it holds.
RECURSIVE MergeNodes(_, _, _, _, _, _, _)
MergeNodes(nodes, i, buffer_text, buffer_meta, buffer_nodes, merged, min_chunk_size) ==
    IF i > Len(nodes)
    THEN IF buffer_text # <<>>
         THEN Append(merged, [text |-> buffer_text, meta |-> buffer_meta,
                              nodes |-> buffer_nodes])
         ELSE merged
    ELSE LET node_text == strip(nodes[i].text)
         IN IF buffer_text = <<>>
            THEN MergeNodes(nodes, i + 1, node_text, nodes[i].meta, <<i>>, merged,
                            min_chunk_size)
            ELSE IF ShouldAppend(buffer_text, min_chunk_size)
            THEN MergeNodes(nodes, i + 1, buffer_text \o BlankLine \o node_text,
                            MergedMeta(buffer_meta, nodes[i].meta),
                            Append(buffer_nodes, i), merged, min_chunk_size)
            ELSE MergeNodes(nodes, i + 1, node_text, nodes[i].meta, <<i>>,
                            Append(merged, [text |-> buffer_text, meta |-> buffer_meta,
                                            nodes |-> buffer_nodes]),
                            min_chunk_size)

\* ---------------------------------------- RecursiveCharacterTextSplitter
\* The separators the chunker gives the splitter (lines 36-40).
separators ==
    << <<"\n", "\n">>, <<"\n">>, <<".", " ">>, <<"?", " ">>, <<"!", " ">>,
       <<".", ".", ".", " ">>, <<" ">> >>

\* re.split on the separator: the pieces between its occurrences, from the
\* left, without overlap.
RECURSIVE Pieces(_, _)
Pieces(text, sep) ==
    LET at == {i \in 0..(Len(text) - Len(sep)) : SubSeq(text, i + 1, i + Len(sep)) = sep}
    IN IF at = {} THEN <<text>>
       ELSE LET i == CHOOSE a \in at : \A b \in at : a <= b
            IN <<SubSeq(text, 1, i)>> \o Pieces(SubSeq(text, i + Len(sep) + 1, Len(text)), sep)

\* _split_text_with_regex with keep_separator: every piece but the first
\* begins with the separator; empty pieces are dropped.
SplitKeep(text, sep) ==
    LET ps == Pieces(text, sep)
        splits == [k \in 1..Len(ps) |-> IF k = 1 THEN ps[1] ELSE sep \o ps[k]]
    IN NonEmpty(splits)

\* "".join(docs)
Concat(docs) == Join(docs, <<>>)

\* _join_docs: the pieces joined and stripped; nothing when that is empty.
JoinDoc(current_doc) ==
    LET t == strip(Concat(current_doc)) IN IF t = <<>> THEN <<>> ELSE <<t>>

\* The while loop of _merge_splits: pieces leave the front of current_doc
\* until what stays is within the overlap and leaves room for the next
\* piece, of length len.
RECURSIVE DropHead(_, _, _, _)
DropHead(current_doc, len, chunk_size, chunk_overlap) ==
    LET total == Len(Concat(current_doc))
    IN IF total > chunk_overlap \/ (total + len > chunk_size /\ total > 0)
       THEN DropHead(Tail(current_doc), len, chunk_size, chunk_overlap)
       ELSE current_doc

\* _merge_splits from piece k on: the small pieces packed into chunks of at
\* most chunk_size characters, consecutive chunks sharing up to
\* chunk_overlap characters.
RECURSIVE MergeSplits(_, _, _, _, _, _)
MergeSplits(splits, k, current_doc, docs, chunk_size, chunk_overlap) ==
    IF k > Len(splits) THEN docs \o JoinDoc(current_doc)
    ELSE LET d == splits[k]
             total == Len(Concat(current_doc))
         IN IF total + Len(d) > chunk_size /\ current_doc # <<>>
            THEN MergeSplits(splits, k + 1,
                             Append(DropHead(current_doc, Len(d), chunk_size, chunk_overlap), d),
                             docs \o JoinDoc(current_doc), chunk_size, chunk_overlap)
            ELSE MergeSplits(splits, k + 1, Append(current_doc, d), docs,
                             chunk_size, chunk_overlap)

Flush(good, chunk_size, chunk_overlap) ==
    IF good = <<>> THEN <<>> ELSE MergeSplits(good, 1, <<>>, <<>>, chunk_size, chunk_overlap)

\* _split_text(text, seps): the text split on the first separator of seps
\* that occurs in it (the last one when none occurs); pieces shorter than
\* chunk_size are packed by _merge_splits, a longer piece is split on the
\* separators that follow, and is kept as it is when none follows.
RECURSIVE _split_text(_, _, _, _)
RECURSIVE SplitLoop(_, _, _, _, _, _, _)
SplitLoop(splits, k, good, final, new_separators, chunk_size, chunk_overlap) ==
    IF k > Len(splits) THEN final \o Flush(good, chunk_size, chunk_overlap)
    ELSE LET s == splits[k]
         IN IF Len(s) < chunk_size
            THEN SplitLoop(splits, k + 1, Append(good, s), final, new_separators,
                           chunk_size, chunk_overlap)
            ELSE LET flushed == final \o Flush(good, chunk_size, chunk_overlap)
                 IN SplitLoop(splits, k + 1, <<>>,
                              IF new_separators = <<>> THEN Append(flushed, s)
                              ELSE flushed \o _split_text(s, new_separators, chunk_size,
                                                          chunk_overlap),
                              new_separators, chunk_size, chunk_overlap)

_split_text(text, seps, chunk_size, chunk_overlap) ==
    LET found == {i \in 1..Len(seps) : In(seps[i], text)}
        si == IF found = {} THEN Len(seps) ELSE CHOOSE i \in found : \A j \in found : i <= j
        new_separators == IF found = {} THEN <<>> ELSE SubSeq(seps, si + 1, Len(seps))
    IN SplitLoop(SplitKeep(text, seps[si]), 1, <<>>, <<>>, new_separators,
                 chunk_size, chunk_overlap)

\* self.splitter.split_text(text)
split_text(self, text) == _split_text(text, separators, self.chunk_size, self.chunk_overlap)

\* ------------------------------------------------------------ TextChunker
\* TextChunker(): the fields the methods read, with the defaults.
DefaultChunker ==
    [min_chunk_size |-> MIN_CHUNK_SIZE, chunk_size |-> MAX_CHUNK_SIZE,
     chunk_overlap |-> CHUNK_OVERLAP]

\* Line 93: the tag line put before the buffer text.
TagLine(model_name) ==
    <<"C", "a", "r", " ", "m", "o", "d", "e", "l", ":", " ">> \o model_name \o BlankLine

\* Lines 92-106, from buffer b on: one chunk for every piece of the split
\* of the tagged buffer, with the metadata of the buffer and the tag.
RECURSIVE FinalNodes(_, _, _, _)
FinalNodes(self, merged, b, model_name) ==
    IF b > Len(merged) THEN <<>>
    ELSE LET chunks == split_text(self, TagLine(model_name) \o merged[b].text)
         IN [k \in 1..Len(chunks) |->
                [text |-> chunks[k], meta |-> merged[b].meta, car_model |-> model_name,
                 buffer |-> b]]
            \o FinalNodes(self, merged, b + 1, model_name)

\* The content of a file: the texts of its nodes, a blank line between
\* them.
Content(file) == Join([i \in 1..Len(file.nodes) |-> file.nodes[i].text], BlankLine)

\* chunk_markdown_file(md_path): file.md says that the path is a file named
\* *.md, file.fails that reading or parsing it raises.
chunk_markdown_file(self, file) ==
    IF ~file.md \/ file.fails
    THEN [is_none |-> TRUE, final_nodes |-> <<>>, model_name |-> <<>>, merged |-> <<>>]
    ELSE LET model_name == _extract_model_name(Content(file), file.name)
             merged == MergeNodes(file.nodes, 1, <<>>, 0, <<>>, <<>>, self.min_chunk_size)
         IN [is_none |-> FALSE, final_nodes |-> FinalNodes(self, merged, 1, model_name),
             model_name |-> model_name, merged |-> merged]

\* ------------------------------------------------- the calls on the chunker
\* n characters without a separator.
X(n) == [i \in 1..n |-> "x"]

\* n characters in words, every w-th character a blank.
Words(n, w) == [i \in 1..n |-> IF i % w = 0 THEN " " ELSE "x"]

\* TextChunker(min_chunk_size_chars, max_chunk_size_chars, chunk_overlap)
\* with small sizes.
SmallChunker ==
    [min_chunk_size |-> SmallMin, chunk_size |-> SmallMax, chunk_overlap |-> SmallOverlap]

\* The texts of the parsed nodes for a chunker: nothing, one character,
\* one character less than the minimum, a paragraph of the minimum length
\* naming one tag and one naming another, a run of more than the maximum
\* without a separator, and words over more than the maximum.
NodeTexts(self) ==
    {<<>>, X(1), X(self.min_chunk_size - 1),
     Honda \o <<" ">> \o X(self.min_chunk_size - 6),
     Subaru \o <<" ">> \o X(self.min_chunk_size - 7),
     X(self.chunk_size + 1), Words(self.chunk_size + 7, 4)}

\* The node texts of the files chunked with the default sizes: paragraphs
\* of 100 and of 200 characters, a run of more than the maximum without a
\* separator, and words over more than the maximum.
DefaultDocs ==
    {<<X(100), X(200)>>, <<X(MAX_CHUNK_SIZE + 1)>>, <<Words(MAX_CHUNK_SIZE + 7, 100)>>}

\* The file names: one naming no tag, one naming a tag.
FileNames ==
    {<<"m", ".", "m", "d">>, <<"H", "o", "n", "d", "a", "_", "1", ".", "m", "d">>}

\* The Markdown files: up to MaxDocNodes nodes each, the metadata of a node
\* being its position; a path that is no Markdown file, and a file whose
\* reading raises.
File(name, d) ==
    [name |-> name, md |-> TRUE, fails |-> FALSE,
     nodes |-> [i \in 1..Len(d) |-> [text |-> d[i], meta |-> i]]]
Files(self) ==
    {File(name, d) : d \in SeqsUpTo(NodeTexts(self), MaxDocNodes), name \in FileNames}
    \cup {[name |-> <<"m", ".", "m", "d">>, md |-> md, fails |-> ~md,
           nodes |-> <<[text |-> X(1), meta |-> 1]>>] : md \in BOOLEAN}

\* The texts and file names given to _extract_model_name: up to MaxWords
\* words, in a text with blanks between them, in a file name with dashes
\* or underscores.
TextWords ==
    {<<"F", "O", "R", "D">>, <<"m", "u", "s", "t", "a", "n", "g">>, Honda, <<"c", "a", "r">>}
FileWords ==
    {<<"f", "o", "r", "d">>, <<"M", "u", "s", "t", "a", "n", "g">>, Subaru}
TagTexts == {Join(ws, <<" ">>) : ws \in SeqsUpTo(TextWords, MaxWords)}
TagFileNames ==
    {Join(ws, sep) \o <<".", "m", "d">> : ws \in SeqsUpTo(FileWords, MaxWords),
                                         sep \in {<<"-">>, <<"_">>}}

\* ---------------------------------------------------------------- chunk_dir
\* An entry kept for every file, whatever chunk_markdown_file returned.
KeepsEntryAlways(o) == TRUE

\* Line 125: if chunks - neither None nor an empty list.
KeepsEntry(o) == ~o.is_none /\ o.final_nodes # <<>>

\* Lines 123-126, from file i on: the entries of all_chunks, in the order
\* of the files.
RECURSIVE ChunkFiles(_, _, _)
ChunkFiles(self, files, i) ==
    IF i > Len(files) THEN <<>>
    ELSE LET o == chunk_markdown_file(self, files[i])
         IN (IF KeepsEntry(o) THEN <<[name |-> files[i].name, chunks |-> o.final_nodes]>>
             ELSE <<>>)
            \o ChunkFiles(self, files, i + 1)

\* chunk_dir(dir): dir.is_dir says that the path is a directory, dir.files
\* are the paths dir.glob('*.md') yields.
chunk_dir(self, dir) == IF ~dir.is_dir THEN <<>> ELSE ChunkFiles(self, dir.files, 1)

\* The name of the i-th file of a directory.
DirFileName(i) == [j \in 1..i |-> "f"] \o <<".", "m", "d">>

\* The kinds of paths in a directory: a file with one paragraph, a file
\* without nodes, a file whose reading raises, a path that is no file.
DirFile(kind, i) ==
    [name |-> DirFileName(i), md |-> kind # "nofile", fails |-> kind = "fails",
     nodes |-> IF kind = "text"
               THEN <<[text |-> Honda \o <<" ">> \o X(i), meta |-> 1]>> ELSE <<>>]
FileKinds == {"text", "empty", "fails", "nofile"}

\* The directories: up to MaxDirFiles paths, and a path that is no
\* directory.
Dirs ==
    {[is_dir |-> TRUE, files |-> [i \in 1..Len(ks) |-> DirFile(ks[i], i)]]
        : ks \in SeqsUpTo(FileKinds, MaxDirFiles)}
    \cup {[is_dir |-> FALSE, files |-> <<DirFile("text", 1)>>]}

IdleChunker == [op |-> "idle"]

\* The calls waiting to be made.
ChunkerCalls ==
    {[op |-> "call", fn |-> "_extract_model_name", text |-> t, filename |-> f]
        : t \in TagTexts, f \in TagFileNames}
    \cup {[op |-> "call", fn |-> "chunk_markdown_file", self |-> SmallChunker, file |-> f]
             : f \in Files(SmallChunker)}
    \cup {[op |-> "call", fn |-> "chunk_markdown_file", self |-> DefaultChunker,
            file |-> File(<<"m", ".", "m", "d">>, d)] : d \in DefaultDocs}
    \cup {[op |-> "call", fn |-> "chunk_dir", self |-> SmallChunker, dir |-> d]
             : d \in Dirs}

\* self._extract_model_name(text, filename)
ExtractModelName ==
    /\ chunker.op = "call" /\ chunker.fn = "_extract_model_name"
    /\ chunker' = [op |-> "_extract_model_name", text |-> chunker.text,
                   filename |-> chunker.filename,
                   ret |-> _extract_model_name(chunker.text, chunker.filename)]
    /\ UNCHANGED <<indexVars, search, chatVars, processor, writers>>

\* chunker.chunk_markdown_file(md_path)
ChunkMarkdownFile ==
    /\ chunker.op = "call" /\ chunker.fn = "chunk_markdown_file"
    /\ LET o == chunk_markdown_file(chunker.self, chunker.file)
       IN chunker' = [op |-> "chunk_markdown_file", self |-> chunker.self,
                      file |-> chunker.file,
                      is_none |-> o.is_none, final_nodes |-> o.final_nodes,
                      model_name |-> o.model_name, merged |-> o.merged]
    /\ UNCHANGED <<indexVars, search, chatVars, processor, writers>>

\* ================================================== MarkdownImageProcessor
\* image_tag_pattern, !\[(.*?)\]\((.*?)\), tried at position i of s: the
\* positions of a "](" that can end the alternative text, no line break
\* before it and a ")" on the same line after it.
TagMiddles(s, i) ==
    {j \in (i + 2)..(Len(s) - 1) :
        /\ s[j] = "]" /\ s[j + 1] = "("
        /\ \A a \in (i + 2)..(j - 1) : s[a] # "\n"
        /\ \E k \in (j + 2)..Len(s) :
               s[k] = ")" /\ \A a \in (j + 2)..(k - 1) : s[a] # "\n"}

\* The pattern matches at position i.
TagAt(s, i) ==
    /\ i + 1 <= Len(s) /\ s[i] = "!" /\ s[i + 1] = "["
    /\ TagMiddles(s, i) # {}

\* The least element of a non-empty set of positions.
Least(S) == CHOOSE a \in S : \A b \in S : a <= b

\* The match at position i whose alternative text ends before j and whose
\* path ends before k: its span as Python counts it (start included, end
\* excluded, from 0), the alternative text and the path.
TagSpan(s, i, j, k) ==
    [start |-> i - 1, end |-> k, alt |-> SubSeq(s, i + 2, j - 1),
     path |-> SubSeq(s, j + 2, k - 1)]

\* Both groups of the pattern are lazy: the path ends at the first ")".
TagPath(s, i, j) == TagSpan(s, i, j, Least({k \in (j + 2)..Len(s) : s[k] = ")"}))

\* The match at position i: the alternative text ends at the first "]("
\* that can end it.
TagMatch(s, i) == TagPath(s, i, Least(TagMiddles(s, i)))

\* image_tag_pattern.finditer(s), from position p on: the matches from the
\* left, without overlap.
RECURSIVE FindIter(_, _)
FindAfter(s, m) == <<m>> \o FindIter(s, m.end + 1)
FindFirst(s, at) == IF at = {} THEN <<>> ELSE FindAfter(s, TagMatch(s, Least(at)))
FindIter(s, p) == FindFirst(s, {i \in p..Len(s) : TagAt(s, i)})

\* image_tag_pattern.sub('', s)
RECURSIVE RemoveTags(_)
RemoveMatches(s, ms) ==
    IF ms = <<>> THEN s
    ELSE SubSeq(s, 1, ms[1].start) \o RemoveTags(SubSeq(s, ms[1].end + 1, Len(s)))
RemoveTags(s) == RemoveMatches(s, FindIter(s, 1))

\* str.split(): the words of s, the runs of characters that are no
\* whitespace.
RECURSIVE SplitWords(_)
SplitAt(t, ws) ==
    IF t = <<>> THEN <<>>
    ELSE IF ws = {} THEN <<t>>
    ELSE <<SubSeq(t, 1, Least(ws) - 1)>> \o SplitWords(SubSeq(t, Least(ws) + 1, Len(t)))
SplitStripped(t) == SplitAt(t, {i \in 1..Len(t) : t[i] \in Whitespace})
SplitWords(s) == SplitStripped(strip(s))

\* words[-n:] and words[:n], for n > 0
LastWords(words, n) ==
    IF Len(words) <= n THEN words ELSE SubSeq(words, Len(words) - n + 1, Len(words))
FirstWords(words, n) == IF Len(words) <= n THEN words ELSE SubSeq(words, 1, n)

\* _extract_and_clean_context(full_text, match_start, match_end): the
\* context_words words before and after the tag, other tags removed,
\* whitespace collapsed.
_extract_and_clean_context(context_words, full_text, match_start, match_end) ==
    LET words_before == SplitWords(SubSeq(full_text, 1, match_start))
        words_after == SplitWords(SubSeq(full_text, match_end + 1, Len(full_text)))
        context_before == Join(LastWords(words_before, context_words), <<" ">>)
        context_after == Join(FirstWords(words_after, context_words), <<" ">>)
        context == RemoveTags(context_before \o <<" ">> \o context_after)
    IN Join(SplitWords(context), <<" ">>)

\* The context given for a tag without text around it and without
\* alternative text ("No text context available").
NoContextMsg == <<"N", "c">>

\* The text that stands for a description when the model call raises
\* ("Error describing image <name>").
ErrorDescription(path) == <<"E", "r", " ">> \o path

\* _describe_image(image_path, context_text) for an image that exists: llm
\* is what the model call does.  The description is stripped and its line
\* breaks become blanks.
_describe_image(path, llm) ==
    IF llm.raised THEN ErrorDescription(path)
    ELSE strip(replace(strip(llm.text), "\n", " "))

\* The tags replaced from the first to the last.
ReplacementOrderForward(matches) == matches

\* Line 147: reversed(matches)
ReplacementOrder(matches) == [n \in 1..Len(matches) |-> matches[Len(matches) + 1 - n]]

\* Lines 156-160: the context given for a tag, the cleaned context, or the
\* alternative text, or a fixed text.
ContextOr(cleaned, alt_text) ==
    IF cleaned # <<>> THEN cleaned ELSE IF alt_text # <<>> THEN alt_text ELSE NoContextMsg

\* The _describe_image call made for a tag: the path, the context and the
\* span of the tag.
DescribeCall(context_words, original_content, match) ==
    [path |-> match.path,
     context |-> ContextOr(_extract_and_clean_context(context_words, original_content,
                                                      match.start, match.end), match.alt),
     span |-> <<match.start, match.end>>]

\* Lines 147-163, from the n-th tag of todo on: content the text so far,
\* calls the _describe_image calls made so far.  exists is the set of the
\* image paths that exist, describe what the model call does for a path.
\* ReplaceTag is lines 162-163 for the tag match, made the calls with its
\* own: a missing image ends the loop.
RECURSIVE ReplaceTags(_, _, _, _, _, _, _, _)
ReplaceTag(context_words, original_content, content, todo, n, made, exists, describe) ==
    IF todo[n].path \notin exists
    THEN [raised |-> TRUE, content |-> content, calls |-> made]
    ELSE ReplaceTags(context_words, original_content,
                     SubSeq(content, 1, todo[n].start)
                         \o _describe_image(todo[n].path, describe[todo[n].path])
                         \o SubSeq(content, todo[n].end + 1, Len(content)),
                     todo, n + 1, made, exists, describe)
ReplaceTags(context_words, original_content, content, todo, n, calls, exists, describe) ==
    IF n > Len(todo) THEN [raised |-> FALSE, content |-> content, calls |-> calls]
    ELSE ReplaceTag(context_words, original_content, content, todo, n,
                    Append(calls, DescribeCall(context_words, original_content, todo[n])),
                    exists, describe)

\* Lines 165-172 after the loop ended as o: the file is written unless the
\* loop raised, and nothing is raised to the caller.
Written(content, matches, o) ==
    [written |-> ~o.raised, file |-> IF o.raised THEN content ELSE o.content,
     matches |-> matches, calls |-> o.calls, missing |-> o.raised]

\* process_markdown_file(md_file_path) on a file with the text content:
\* what the file holds afterwards, whether it was written, and the
\* _describe_image calls made.  Nothing is raised to the caller.
process_markdown_file(context_words, content, exists, describe) ==
    Written(content, FindIter(content, 1),
            ReplaceTags(context_words, content, content,
                        ReplacementOrder(FindIter(content, 1)), 1, <<>>, exists, describe))

\* ------------------------------------------- the calls on the processor
\* The image paths, and the tags with and without alternative text.
ImagePaths == {<<"1">>, <<"2">>}
TagOne == <<"!", "[", "x", "]", "(", "1", ")">>
TagTwo == <<"!", "[", "]", "(", "2", ")">>

\* The pieces a Markdown text is made of, and the texts of up to
\* MaxSegments pieces.
Segments == {<<"a", " ">>, <<"b">>, TagOne, TagTwo}
Contents == {Concat(ps) : ps \in SeqsUpTo(Segments, MaxSegments)}

\* What the model call does for an image: a description shorter than the
\* tag, a description longer than the tag with a line break, or it raises.
DescribeOutcomes ==
    {Says(<<"D">>), Says(<<" ", "D", "\n", "D", "D", "D", "D", "D", "D", "D">>), Raises}

IdleProcessor == [op |-> "idle"]

ProcessorCalls ==
    {[op |-> "call", content |-> c, exists |-> e, describe |-> d]
        : c \in Contents, e \in SUBSET ImagePaths, d \in [ImagePaths -> DescribeOutcomes]}

\* processor.process_markdown_file(md_file) with a context window of
\* ContextWords words
ProcessMarkdownFile ==
    /\ processor.op = "call"
    /\ processor' = [op |-> "process_markdown_file"]
                        @@ [f \in {"content", "exists", "describe"} |-> processor[f]]
                        @@ process_markdown_file(ContextWords, processor.content,
                                                 processor.exists, processor.describe)
    /\ UNCHANGED <<indexVars, search, chatVars, chunker, writers>>

\* ====================================================== concurrent builds
\* Processes that run _create_index on the same store directory at the same
\* time, each on its own chunk list, without any lock.
Writers == 1..MaxWriters

IdleWriter == [pc |-> "idle", build |-> 0, index |-> None]
IdleWriters == [w \in Writers |-> IdleWriter]

\* The chunk list of the process w: the lists of Corpora in turn.
WriterNodes(w) == CHOOSE c \in Corpora : Len(c) = ((w - 1) % MaxNodes) + 1

\* Lines 125-153 in the process w: the directory made, the structure
\* created and trained, the nodes embedded and inserted; any of these steps
\* may raise, and then the process returns None.
WriterBuild(w) ==
    /\ writers[w].pc = "idle"
    /\ LET nodes == WriterNodes(w)
           b == nbuilds + 1
           fi == NewIvf(b, embedding_dim, ivf_nlist, ivf_nprobe)
       IN \/ writers' = [writers EXCEPT ![w] = [pc |-> "failed", build |-> b, index |-> None]]
          \/ /\ ~DimRaises(fi, ModelDim) /\ ~TrainRaises(Len(nodes), ivf_nlist)
             /\ \E cents \in CentroidChoices(Embeddings(nodes), ivf_nlist) :
                    writers' = [writers EXCEPT ![w] =
                                   [pc |-> "built", build |-> b,
                                    index |-> MkIndex(AddAll(Train(fi, cents), Embeddings(nodes)),
                                                      NewMeta(b, nodes))]]
    /\ store' = [store EXCEPT !.dir = TRUE]
    /\ nbuilds' = nbuilds + 1
    /\ UNCHANGED <<embed_model, ivf_nlist, ivf_nprobe, call, loadLog, dimVars, search>>
    /\ UNCHANGED <<chatVars, chunker, processor>>

\* Line 155 in the process w: index.storage_context.persist; when it
\* raises the metadata is as before or cut short.
WriterPersist(w) ==
    /\ writers[w].pc = "built"
    /\ \/ /\ store' = [store EXCEPT !.meta = persist(writers[w].index.meta)]
          /\ writers' = [writers EXCEPT ![w].pc = "persisted"]
       \/ /\ \E m \in {store.meta, Corrupt} : store' = [store EXCEPT !.meta = m]
          /\ writers' = [writers EXCEPT ![w] = [@ EXCEPT !.pc = "failed", !.index = None]]
    /\ UNCHANGED <<embed_model, ivf_nlist, ivf_nprobe, nbuilds, call, loadLog, dimVars, search>>
    /\ UNCHANGED <<chatVars, chunker, processor>>

\* Line 156 in the process w: faiss.write_index; when it raises the file is
\* as before or cut short.  Then the process returns its index.
WriterWriteIndex(w) ==
    /\ writers[w].pc = "persisted"
    /\ \/ /\ store' = [store EXCEPT !.faiss = write_index(writers[w].index.faiss)]
          /\ writers' = [writers EXCEPT ![w].pc = "done"]
       \/ /\ \E f \in {store.faiss, Corrupt} : store' = [store EXCEPT !.faiss = f]
          /\ writers' = [writers EXCEPT ![w] = [@ EXCEPT !.pc = "failed", !.index = None]]
    /\ UNCHANGED <<embed_model, ivf_nlist, ivf_nprobe, nbuilds, call, loadLog, dimVars, search>>
    /\ UNCHANGED <<chatVars, chunker, processor>>

\* chunker.chunk_dir(dir)
ChunkDir ==
    /\ chunker.op = "call" /\ chunker.fn = "chunk_dir"
    /\ chunker' = [op |-> "chunk_dir", self |-> chunker.self, dir |-> chunker.dir,
                   all_chunks |-> chunk_dir(chunker.self, chunker.dir)]
    /\ UNCHANGED <<indexVars, search, chatVars, processor, writers>>

Init ==
    /\ \E given \in Dims, ok \in BOOLEAN :
           LET o == _initialize_embed_model(given, ModelDim, ok)
           IN /\ embed_model = o.embed_model
              /\ embedding_dim = o.embedding_dim
              /\ dim_warned = o.warned
    /\ ivf_nlist \in NlistChoices
    /\ ivf_nprobe \in NprobeChoices
    /\ store = EmptyStore
    /\ nbuilds = 0
    /\ call = IdleCall
    /\ loadLog = {}
    /\ search = IdleSearch
    /\ app_index = FALSE
    /\ chat_history = <<>>
    /\ interaction_log = 0
    /\ turn = IdleTurn
    /\ chunker = IdleChunker
    /\ processor = IdleProcessor
    /\ writers = IdleWriters

\* The index store under repeated builds, loads and failures.
Next ==
    \/ BuildOrLoad
    \/ VectorIndexInit
    \/ StoreFileRemoved

Spec == Init /\ [][Next]_vars

\* The pipeline: one indexing run, then the query side.
NextQuery ==
    \/ IndexBuild
    \/ LoadVectorIndex
    \/ Search

SpecQuery == Init /\ [][NextQuery]_vars

\* The chat application started: the index loaded or not, no history.
InitChat ==
    /\ embed_model = TRUE
    /\ embedding_dim = ModelDim
    /\ dim_warned = FALSE
    /\ ivf_nlist = DefaultNlist
    /\ ivf_nprobe = IVF_NPROBE
    /\ store = EmptyStore
    /\ nbuilds = 0
    /\ call = IdleCall
    /\ loadLog = {}
    /\ search = IdleSearch
    /\ app_index \in BOOLEAN
    /\ chat_history = <<>>
    /\ interaction_log = 0
    /\ turn = IdleTurn
    /\ chunker = IdleChunker
    /\ processor = IdleProcessor
    /\ writers = IdleWriters

NextChat ==
    \/ Run

SpecChat == InitChat /\ [][NextChat]_vars

\* The chunker with one call to make.
InitChunk ==
    /\ embed_model = TRUE
    /\ embedding_dim = ModelDim
    /\ dim_warned = FALSE
    /\ ivf_nlist = DefaultNlist
    /\ ivf_nprobe = DefaultNprobe
    /\ store = EmptyStore
    /\ nbuilds = 0
    /\ call = IdleCall
    /\ loadLog = {}
    /\ search = IdleSearch
    /\ app_index = FALSE
    /\ chat_history = <<>>
    /\ interaction_log = 0
    /\ turn = IdleTurn
    /\ chunker \in ChunkerCalls
    /\ processor = IdleProcessor
    /\ writers = IdleWriters

NextChunk ==
    \/ ExtractModelName
    \/ ChunkMarkdownFile
    \/ ChunkDir

SpecChunk == InitChunk /\ [][NextChunk]_vars

\* The image processor with one Markdown file to process.
InitDescribe ==
    /\ embed_model = TRUE
    /\ embedding_dim = ModelDim
    /\ dim_warned = FALSE
    /\ ivf_nlist = DefaultNlist
    /\ ivf_nprobe = DefaultNprobe
    /\ store = EmptyStore
    /\ nbuilds = 0
    /\ call = IdleCall
    /\ loadLog = {}
    /\ search = IdleSearch
    /\ app_index = FALSE
    /\ chat_history = <<>>
    /\ interaction_log = 0
    /\ turn = IdleTurn
    /\ chunker = IdleChunker
    /\ processor \in ProcessorCalls
    /\ writers = IdleWriters

NextDescribe ==
    \/ ProcessMarkdownFile

SpecDescribe == InitDescribe /\ [][NextDescribe]_vars

\* Processes building on an empty store at the same time, each VectorIndex
\* made with the same arguments and a model that initialized.
InitConcurrent ==
    /\ embed_model = TRUE
    /\ embedding_dim = ModelDim
    /\ dim_warned = FALSE
    /\ ivf_nlist \in NlistChoices
    /\ ivf_nprobe = DefaultNprobe
    /\ store = EmptyStore
    /\ nbuilds = 0
    /\ call = IdleCall
    /\ loadLog = {}
    /\ search = IdleSearch
    /\ app_index = FALSE
    /\ chat_history = <<>>
    /\ interaction_log = 0
    /\ turn = IdleTurn
    /\ chunker = IdleChunker
    /\ processor = IdleProcessor
    /\ writers = IdleWriters

NextConcurrent ==
    \/ \E w \in Writers : WriterBuild(w)
    \/ \E w \in Writers : WriterPersist(w)
    \/ \E w \in Writers : WriterWriteIndex(w)

SpecConcurrent == InitConcurrent /\ [][NextConcurrent]_vars

\* =================================================================== claims
Called == call.op = "build_or_load"

\* The index a load of the store st yields.
LoadedIndex(st) == MkIndex(read_index(st.faiss), load_index_from_storage(st.meta))

\* The call computed no embeddings, ran no training and left the store as
\* it was.
NoBuildStep ==
    /\ call.embeds = 0
    /\ ~call.trained
    /\ call.wrote = {}
    /\ store = call.pre

\* The returned index was trained and populated by this call from the
\* chunks it was given.
FreshIndex ==
    /\ call.ret # None
    /\ call.createCalled /\ call.trained
    /\ call.ret.faiss.build = call.build
    /\ call.ret.meta.build = call.build
    /\ call.ret.faiss.is_trained
    /\ call.ret.faiss.ntotal = Len(call.nodes)
    /\ call.ret.meta.docstore = call.nodes
    /\ call.ret.faiss = AddAll([call.ret.faiss EXCEPT
                                   !.ntotal = 0,
                                   !.invlists = [c \in DOMAIN @ |-> <<>>]],
                               Embeddings(call.nodes))
    /\ FaissReadable(call.pre) => call.pre.faiss.build < call.build
    /\ MetaReadable(call.pre) => call.pre.meta.build < call.build

\* C1 as stated: with force_reindex=False and a valid persisted index the
\* call returns the loaded index and performs no build step.
C1_Original ==
    (Called /\ ~call.force /\ ValidStore(call.pre))
        => (call.ret = LoadedIndex(call.pre) /\ NoBuildStep)

\* C1 as amended: with force_reindex=False and a valid persisted index the
\* call performs no build step for any nodes; it returns the loaded index
\* when the embedding model initialized, and None when it did not.
C1_LoadIsIdempotent ==
    (Called /\ ~call.force /\ ValidStore(call.pre))
        => /\ NoBuildStep
           /\ ~call.createCalled
           /\ call.ret = IF call.self.embed_model THEN LoadedIndex(call.pre) ELSE None

C1_Witness ==
    /\ Called /\ ~call.force /\ ValidStore(call.pre)
    /\ call.self.embed_model /\ call.nodes # <<>>
    /\ call.ret = LoadedIndex(call.pre)

\* C2 as stated: with force_reindex=True the call always produces a freshly
\* trained and populated index from the given chunks and never attempts a
\* load.
C2_Original ==
    (Called /\ call.force) => (~call.loadTried /\ FreshIndex)

\* C2 as amended: with force_reindex=True the call never attempts a load
\* and never returns the persisted index: what it returns is either None
\* (no embedding model, no chunks, or a build step that raised) or an index
\* freshly trained and populated from the given chunks.
C2_ForcedRebuildIsFresh ==
    (Called /\ call.force)
        => /\ ~call.loadTried
           /\ call.ret = None \/ FreshIndex

C2_Witness ==
    /\ Called /\ call.force /\ ValidStore(call.pre)
    /\ FreshIndex
    /\ call.ret # LoadedIndex(call.pre)

\* C3 as stated: with force_reindex=False and a store that does not load,
\* the call falls through to building from the given chunks.
C3_Original ==
    (Called /\ ~call.force /\ ~ValidStore(call.pre)) => call.createCalled

\* C3 as amended: on a VectorIndex whose embedding model initialized, with
\* force_reindex=False and a store that does not load (directory absent,
\* ANN file absent or unreadable, metadata missing or corrupt) the call
\* falls through to _create_index on the given chunks, and what it returns
\* is that build's result; without an embedding model it returns None
\* before either step.
C3_FailedLoadFallsThrough ==
    (Called /\ ~call.force /\ ~ValidStore(call.pre))
        => IF call.self.embed_model
           THEN /\ call.createCalled
                /\ call.loadTried = call.pre.dir
                /\ call.ret = None \/ FreshIndex
           ELSE ~call.createCalled /\ ~call.loadTried /\ call.ret = None

C3_Witness ==
    /\ Called /\ ~call.force /\ call.self.embed_model
    /\ call.pre.dir /\ FaissReadable(call.pre) /\ ~MetaReadable(call.pre)
    /\ call.loadTried /\ call.createCalled
    /\ FreshIndex

\* C4: whenever the store holds both the ANN index file and the metadata,
\* both come from the same build.
C4_PersistedAsUnit ==
    ValidStore(store) => store.faiss.build = store.meta.build

\* C5: a build whose training or insertion fails returns None and
\* persists nothing: the index file and the metadata are those the store
\* held before.
C5_FailedBuildPersistsNothing ==
    (Called /\ call.createCalled /\ call.fault \in {"train", "train_too_few", "insert"})
        => /\ call.ret = None
           /\ call.wrote = {}
           /\ store.faiss = call.pre.faiss
           /\ store.meta = call.pre.meta

C5_Witness ==
    /\ Called /\ call.fault = "insert"
    /\ ValidStore(call.pre)
    /\ call.ret = None /\ store.faiss = call.pre.faiss

\* C6: without chunks or without an embedding model no index is built:
\* _create_index, and build_or_load_index when it reaches the build,
\* return None, compute no embeddings, train nothing and leave the store
\* path untouched.
C6_BuildNeedsChunksAndModel ==
    /\ (Called /\ (~call.self.embed_model \/ (call.createCalled /\ call.nodes = <<>>)))
           => (call.ret = None /\ NoBuildStep)
    /\ \A nodes \in Corpora :
           \A o \in _create_index([Self EXCEPT !.embed_model = FALSE], store, nodes, nbuilds + 1)
                    \cup _create_index(Self, store, <<>>, nbuilds + 1) :
               /\ o.ret = None /\ o.store = store
               /\ o.embeds = 0 /\ ~o.trained /\ o.wrote = {}

C6_Witness ==
    /\ Called /\ call.self.embed_model
    /\ call.createCalled /\ call.nodes = <<>>
    /\ ~call.pre.dir /\ ~store.dir
    /\ call.ret = None

\* C7 as stated: the load reports an absent ANN file and missing or
\* corrupt metadata by results that differ from one another and from a
\* successful load's.
C7_Original ==
    \A e1 \in loadLog : \A e2 \in loadLog :
        (/\ e1.cause \in {"no_faiss", "bad_meta"}
         /\ e2.cause \in {"no_faiss", "bad_meta", "ok"}
         /\ e1.cause # e2.cause)
            => e1.ret # e2.ret

\* C7 as amended: the load reports every failure (ANN file absent or
\* unreadable, metadata missing or corrupt) to its caller by the same
\* result, None, which differs only from a successful load's index; the
\* cause is in the log message alone.
C7_LoadFailuresAllNone ==
    \A e \in loadLog :
        /\ e.cause # "ok" => e.ret = "None"
        /\ e.cause = "ok" => e.ret = "index"

C7_Witness ==
    /\ [cause |-> "no_faiss", ret |-> "None"] \in loadLog
    /\ [cause |-> "bad_meta", ret |-> "None"] \in loadLog

C9_DefaultConfigReturnsIndex ==
    (/\ Called /\ ~call.force /\ call.nodes # <<>>
     /\ call.self.embed_model /\ call.self.ivf_nlist = DefaultNlist
     /\ call.fault \in {"none", "train_too_few"})
        => call.ret # None

\* C10: search_in_index never raises; it returns the empty list without
\* calling the retriever for an empty query or a None index, the empty
\* list when the retriever raises or finds nothing, and otherwise the
\* retriever's nodes as they came.
C10_SearchNeverRaises ==
    search.op = "search"
        => /\ ~search.raised
           /\ (search.query = <<>> \/ ~search.hasIndex)
                  => (search.result = <<>> /\ search.retrieverCalls = 0)
           /\ (search.query # <<>> /\ search.hasIndex)
                  => /\ search.retrieverCalls = 1
                     /\ search.result =
                            IF search.retrieverRaised THEN <<>> ELSE search.retrieved

C10_Witness ==
    /\ search.op = "search" /\ ~search.retrieverRaised
    /\ Len(search.result) = 2
    /\ search.result = search.retrieved
    /\ search.result[1].node_id > search.result[2].node_id

\* ---------------------------------------------------------------- chat turn
\* The turn recorded in turn appended its assistant message, which is the
\* last message of the history.
Answered == turn.op = "run" /\ ~turn.raised /\ turn.query # NoQuery
LastMessage == chat_history[Len(chat_history)]

\* C11: a turn whose answer holds a fallback phrase, in any letter case,
\* stores no context with the assistant message, whatever chunks were
\* retrieved; a turn whose answer call succeeded with an answer holding no
\* fallback phrase stores the retrieved chunk texts joined by the
\* separator.
C11_FallbackSuppressesContext ==
    Answered /\ turn.results # <<>> =>
        /\ LastMessage.role = "assistant" /\ LastMessage.content = turn.answer
        /\ (\E i \in DOMAIN fallback_responses :
                In(lower(fallback_responses[i]), lower(turn.answer)))
           => LastMessage.chunks = None
        /\ ( /\ \A i \in DOMAIN fallback_responses :
                  ~In(lower(fallback_responses[i]), lower(turn.answer))
             /\ "llm_answer" \notin turn.failed )
           => LastMessage.chunks = Some(Join(turn.results, ChunkSeparator))

\* A fallback answer written in another letter case than the phrase, with
\* two chunks retrieved.
C11_Witness ==
    /\ Answered /\ Len(turn.results) = 2
    /\ turn.answer = <<"o", "b", "U", "k">>
    /\ LastMessage.chunks = None

\* The steps of the turn recorded in turn, in the order they ran.
Steps == {turn.trace[i] : i \in 1..Len(turn.trace)}

\* C12: without retrieved chunks get_answer returns its fixed message and
\* an empty context and does not call the LLM; a turn whose search returned
\* nothing appends the fixed no-information answer and calls neither
\* get_answer nor the answer LLM.
C12_NoChunksShortCircuits ==
    /\ \A llm \in AnswerOutcomes, q \in {NoQuery, turn.standalone} :
           LET ga == get_answer(<<>>, q, llm)
           IN ga.answer = NoPromptMsg /\ ga.chunks = <<>> /\ ga.llm_calls = 0 /\ ~ga.raised
    /\ turn.op = "run" /\ turn.query # NoQuery /\ ~turn.raised /\ turn.results = <<>> =>
           /\ LastMessage = [role |-> "assistant", content |-> NoInfoMsg, chunks |-> None]
           /\ Steps \cap {"get_answer", "llm_answer"} = {}

\* A search that ran on the index with a statement and found nothing.
C12_Witness ==
    /\ Answered /\ app_index /\ turn.statement # <<>> /\ turn.results = <<>>
    /\ LastMessage.content = NoInfoMsg

\* C13: when the answer LLM call fails on retrieved chunks, get_answer
\* returns the fixed error message with an empty context and raises
\* nothing.
C13_AnswerFailureCaught ==
    /\ \A r \in RetrieverOutcomes : r.nodes # <<>> =>
           LET ga == get_answer(r.nodes, turn.standalone, Raises)
           IN ga.answer = LlmErrorMsg /\ ga.chunks = <<>> /\ ~ga.raised
    /\ turn.op = "run" /\ "llm_answer" \in turn.failed =>
           /\ turn.cause # "llm_answer"
           /\ turn.answer = LlmErrorMsg
           /\ turn.retrieved_chunks = Some(<<>>)
           /\ ~turn.raised => /\ LastMessage.content = LlmErrorMsg
                              /\ LastMessage.chunks = None

\* The answer call failed and the turn ended with the error message.
C13_Witness ==
    /\ Answered /\ "llm_answer" \in turn.failed
    /\ LastMessage.content = LlmErrorMsg

\* C14: no failure of the rewrite, the search-optimization or the answer
\* LLM call leaves run, and a turn with a chat input ends with an
\* assistant message appended.
C14_LlmFailuresCaught ==
    turn.op = "run" =>
        /\ turn.cause \notin {"llm_rewrite", "llm_optimize", "llm_answer"}
        /\ turn.query # NoQuery =>
               /\ Len(chat_history) = turn.preLen + 2
               /\ LastMessage.role = "assistant"

\* C15: with an empty history the rewrite returns the query as it is and
\* calls no LLM; the history the rewrite reads is the history before the
\* turn, and the user message of the turn is appended after it.
C15_RewriteSeesOnlyEarlierTurns ==
    turn.op = "run" =>
        /\ turn.preLen = 0 =>
               "llm_rewrite" \notin Steps /\ turn.standalone = turn.query
        /\ turn.seen = IF turn.preLen = 0 THEN <<>>
                       ELSE _get_chat_history_for_prompt(SubSeq(chat_history, 1, turn.preLen), 3)
        /\ "append_user" \in Steps =>
               /\ Len(chat_history) > turn.preLen
               /\ chat_history[turn.preLen + 1] = UserMessage(turn.query)
               /\ \A i \in 1..Len(turn.trace), j \in 1..Len(turn.trace) :
                      turn.trace[i] = "llm_rewrite" /\ turn.trace[j] = "append_user" => i < j

\* A first question answered, and a follow-up question rewritten.
C15_Witness ==
    /\ Answered /\ turn.preLen = 2 /\ "llm_rewrite" \in Steps
    /\ turn.standalone = <<"w">>
    /\ chat_history[1] = UserMessage(<<"q">>)

\* ------------------------------------------------------------------ chunker
\* A Markdown file was chunked.
Chunked == chunker.op = "chunk_markdown_file" /\ ~chunker.is_none

\* C16: every merged buffer of a file but the last has at least the minimum
\* length, and no merged buffer is empty.
C16_BuffersReachMinimum ==
    Chunked =>
        \A b \in 1..Len(chunker.merged) :
            /\ chunker.merged[b].text # <<>>
            /\ b < Len(chunker.merged) =>
                   Len(chunker.merged[b].text) >= chunker.self.min_chunk_size

\* Two short nodes merged into a first buffer, and a short last buffer.
C16_Witness ==
    /\ Chunked /\ Len(chunker.merged) = 2
    /\ Len(chunker.merged[1].nodes) = 2
    /\ Len(chunker.merged[2].text) < chunker.self.min_chunk_size

\* The stripped texts of the nodes at the positions ns of the chunked file,
\* a blank line between them.
JoinedNodes(ns) ==
    Join([k \in 1..Len(ns) |-> strip(chunker.file.nodes[ns[k]].text)], BlankLine)

\* C17: a buffer is the texts of consecutive nodes joined by blank lines; a
\* node was appended exactly when the buffer before it was non-empty and
\* shorter than the minimum, and otherwise began a new buffer (a node
\* without text begins a buffer that the next node replaces); the metadata
\* of a buffer is that of its first node; paragraphs of 100 and 200
\* characters with the minimum 250 give one buffer of at least 300
\* characters.
C17_MergeRule ==
    Chunked =>
        /\ \A b \in 1..Len(chunker.merged) :
               LET buf == chunker.merged[b]
                   ns == buf.nodes
               IN /\ ns # <<>>
                  /\ \A k \in 2..Len(ns) : ns[k] = ns[k - 1] + 1
                  /\ buf.text = JoinedNodes(ns)
                  /\ buf.meta = chunker.file.nodes[ns[1]].meta
                  /\ \A k \in 2..Len(ns) :
                         LET before == JoinedNodes(SubSeq(ns, 1, k - 1))
                         IN before # <<>> /\ Len(before) < chunker.self.min_chunk_size
                  /\ b > 1 =>
                         LET prev == chunker.merged[b - 1]
                         IN /\ prev.nodes[Len(prev.nodes)] < ns[1]
                            /\ Len(prev.text) >= chunker.self.min_chunk_size
                            /\ \A i \in (prev.nodes[Len(prev.nodes)] + 1)..(ns[1] - 1) :
                                   strip(chunker.file.nodes[i].text) = <<>>
        /\ \A i \in 1..Len(chunker.file.nodes) :
               strip(chunker.file.nodes[i].text) # <<>> =>
                   \E b \in 1..Len(chunker.merged) :
                       \E k \in 1..Len(chunker.merged[b].nodes) :
                           chunker.merged[b].nodes[k] = i
        /\ ( /\ chunker.self.min_chunk_size = 250
             /\ Len(chunker.file.nodes) = 2
             /\ Len(chunker.file.nodes[1].text) = 100
             /\ Len(chunker.file.nodes[2].text) = 200 )
           => Len(chunker.merged) = 1 /\ Len(chunker.merged[1].text) >= 300

\* The paragraphs of 100 and 200 characters merged into one buffer of 302
\* characters with the metadata of the first.
C17_Witness ==
    /\ Chunked /\ chunker.self = DefaultChunker
    /\ Len(chunker.file.nodes) = 2 /\ Len(chunker.file.nodes[1].text) = 100
    /\ Len(chunker.merged) = 1
    /\ Len(chunker.merged[1].text) = 302
    /\ chunker.merged[1].meta = 1

\* C18: every chunk got by splitting a tagged buffer is at most the maximum
\* long, also when the buffer holds a run of more than the maximum without
\* any separator.
C18_ChunksWithinMaximum ==
    Chunked =>
        \A k \in 1..Len(chunker.final_nodes) :
            Len(chunker.final_nodes[k].text) <= chunker.self.chunk_size

\* The positions of the known tags that occur in the string s, letter case
\* aside.
TagsIn(s) == {i \in 1..Len(known_models) : In(lower(known_models[i]), lower(s))}

\* The file name with dashes and underscores made blanks.
Normalized(filename) == replace(replace(filename, "-", " "), "_", " ")

First(hits) == CHOOSE i \in hits : \A j \in hits : i <= j

\* C19: the tag returned is a known tag; it is the same when text and file
\* name are written in lower case; it is the earliest tag of the list that
\* occurs in the text or in the normalized file name, so a text holding
\* "ford mustang" gets Ford Mustang and never Ford; it is Volkswagen when
\* no tag occurs.
C19_EarliestTagWins ==
    chunker.op = "_extract_model_name" =>
        LET hits == TagsIn(chunker.text) \cup TagsIn(Normalized(chunker.filename))
        IN /\ \E i \in 1..Len(known_models) : chunker.ret = known_models[i]
           /\ chunker.ret = _extract_model_name(lower(chunker.text), lower(chunker.filename))
           /\ hits # {} => chunker.ret = known_models[First(hits)]
           /\ hits = {} => chunker.ret = Volkswagen
           /\ In(lower(FordMustang), lower(chunker.text)) =>
                  chunker.ret = FordMustang /\ chunker.ret # Ford

\* The text "FORD mustang" in a file that names no tag gets Ford Mustang.
C19_Witness ==
    /\ chunker.op = "_extract_model_name"
    /\ chunker.text = <<"F", "O", "R", "D", " ", "m", "u", "s", "t", "a", "n", "g">>
    /\ chunker.filename = <<".", "m", "d">>
    /\ chunker.ret = FordMustang

\* The tag of a buffer as the text-first rule gives it: the earliest tag
\* that occurs in the buffer text, else the earliest that occurs in the
\* normalized file name, else Volkswagen.
BufferTag(text, filename) ==
    IF TagsIn(text) # {} THEN known_models[First(TagsIn(text))]
    ELSE IF TagsIn(Normalized(filename)) # {}
    THEN known_models[First(TagsIn(Normalized(filename)))]
    ELSE Volkswagen

\* C20: the tag of a chunk is the tag detected for its own buffer, the
\* buffer text checked before the file name: a tag in the buffer text wins
\* over a tag that is only in the file name, and buffers of one file that
\* name different tags get different tags.
C20_TagOfOwnBuffer ==
    /\ Chunked =>
           \A k \in 1..Len(chunker.final_nodes) :
               chunker.final_nodes[k].car_model =
                   BufferTag(chunker.merged[chunker.final_nodes[k].buffer].text,
                             chunker.file.name)
    /\ chunker.op = "_extract_model_name" =>
           chunker.ret = BufferTag(chunker.text, chunker.filename)

\* The entries of all_chunks with the name of the i-th file of the chunked
\* directory.
EntriesOf(i) ==
    {k \in 1..Len(chunker.all_chunks) :
        chunker.all_chunks[k].name = chunker.dir.files[i].name}

DirChunked == chunker.op = "chunk_dir" /\ chunker.dir.is_dir

\* C21 as claimed: a file that cannot be read or parsed has no entry, and
\* every other Markdown file has an entry with its chunks.
C21_Original ==
    DirChunked =>
        \A i \in 1..Len(chunker.dir.files) :
            LET f == chunker.dir.files[i]
            IN IF f.fails \/ ~f.md THEN EntriesOf(i) = {}
               ELSE \E k \in EntriesOf(i) :
                       chunker.all_chunks[k].chunks =
                           chunk_markdown_file(chunker.self, f).final_nodes

\* C21: a file that cannot be read or parsed has no entry; a file without
\* nodes is chunked to an empty list, which is no failure, and has no
\* entry either; every other Markdown file has exactly one entry, with its
\* chunks, whatever the other files of the directory are.
C21_FailuresIsolated ==
    DirChunked =>
        \A i \in 1..Len(chunker.dir.files) :
            LET f == chunker.dir.files[i]
                o == chunk_markdown_file(chunker.self, f)
            IN /\ f.fails \/ ~f.md => EntriesOf(i) = {}
               /\ ~f.fails /\ f.md /\ f.nodes = <<>> =>
                      ~o.is_none /\ o.final_nodes = <<>> /\ EntriesOf(i) = {}
               /\ ~f.fails /\ f.md /\ o.final_nodes # <<>> =>
                      /\ Cardinality(EntriesOf(i)) = 1
                      /\ \A k \in EntriesOf(i) : chunker.all_chunks[k].chunks = o.final_nodes

\* A file whose reading raises, then a file with text that has its entry.
C21_Witness ==
    /\ DirChunked /\ Len(chunker.dir.files) = 2
    /\ chunker.dir.files[1].fails /\ chunker.dir.files[2].nodes # <<>>
    /\ Len(chunker.all_chunks) = 1
    /\ chunker.all_chunks[1].name = chunker.dir.files[2].name

\* --------------------------------------------------------- image processor
Processed == processor.op = "process_markdown_file"

\* A tag of the processed file names an image that does not exist.
SomeImageMissing ==
    \E n \in 1..Len(processor.matches) : processor.matches[n].path \notin processor.exists

\* C22: when an image of a Markdown file is missing, the failure stays
\* with that image: _describe_image is still called for every other tag
\* and the updated file is written.
C22_MissingImageConfined ==
    Processed /\ SomeImageMissing =>
        /\ processor.written
        /\ \A n \in 1..Len(processor.matches) :
               \E c \in 1..Len(processor.calls) :
                   processor.calls[c].span =
                       <<processor.matches[n].start, processor.matches[n].end>>

\* The description obtained for the n-th tag of the processed file.
DescriptionOf(n) ==
    _describe_image(processor.matches[n].path, processor.describe[processor.matches[n].path])

\* The original text from the n-th tag on, every tag replaced by its
\* description: from is the position after the tag before.
RECURSIVE Described(_, _)
Described(n, from) ==
    IF n > Len(processor.matches)
    THEN SubSeq(processor.content, from, Len(processor.content))
    ELSE SubSeq(processor.content, from, processor.matches[n].start)
             \o DescriptionOf(n)
             \o Described(n + 1, processor.matches[n].end + 1)

\* C26: when every image exists, the file is written with every tag
\* replaced by its description and the text outside the tags unchanged and
\* in order, whatever the lengths of the descriptions; the tags are
\* described from the last to the first, each with the context cut from
\* the original text, which holds no description.
C26_TagsReplacedInPlace ==
    Processed /\ ~SomeImageMissing =>
        /\ processor.written
        /\ processor.file = Described(1, 1)
        /\ Len(processor.calls) = Len(processor.matches)
        /\ \A c \in 1..Len(processor.calls) :
               LET m == processor.matches[Len(processor.matches) + 1 - c]
                   cleaned == _extract_and_clean_context(ContextWords, processor.content,
                                                         m.start, m.end)
               IN /\ processor.calls[c].path = m.path
                  /\ processor.calls[c].span = <<m.start, m.end>>
                  /\ cleaned # <<>> => processor.calls[c].context = cleaned
                  /\ \A i \in 1..Len(processor.calls[c].context) :
                         processor.calls[c].context[i] \notin {"D", "E"}

\* A file with text and two tags, the first described longer than the tag
\* and the second shorter, written with both descriptions.
C26_Witness ==
    /\ Processed /\ ~SomeImageMissing /\ processor.written
    /\ Len(processor.matches) = 2
    /\ processor.matches[1].start > 0
    /\ Len(DescriptionOf(1)) > processor.matches[1].end - processor.matches[1].start
    /\ Len(DescriptionOf(2)) < processor.matches[2].end - processor.matches[2].start
    /\ processor.file # processor.content

\* ------------------------------------------------------------ chat turns
\* The places of a step in the record of the turn.
Occurrences(e) == {i \in 1..Len(turn.trace) : turn.trace[i] = e}

\* The external calls of a turn, in the order claimed.
ExternalCalls == <<"llm_rewrite", "llm_optimize", "search", "llm_answer">>

\* C23: a turn makes the rewrite call, the search-optimization call, the
\* search and the answer call in this order and each at most once, no call
\* without the ones before it (the rewrite only with a history); a turn
\* with an input that is not cut short by a failure makes the optimization
\* call and the search exactly once; the search is given the output of the
\* optimization call and the answer call the standalone query.
C23_CallsInSequence ==
    turn.op = "run" =>
        /\ \A k \in 1..4 : Cardinality(Occurrences(ExternalCalls[k])) <= 1
        /\ \A k \in 1..4, l \in 1..4 :
               k < l => \A i \in Occurrences(ExternalCalls[k]),
                           j \in Occurrences(ExternalCalls[l]) : i < j
        /\ "llm_answer" \in Steps => "search" \in Steps
        /\ "search" \in Steps => "llm_optimize" \in Steps
        /\ "llm_optimize" \in Steps /\ turn.preLen > 0 => "llm_rewrite" \in Steps
        /\ Answered => {"llm_optimize", "search"} \subseteq Steps
        /\ "search" \in Steps <=> turn.searched # None
        /\ "search" \in Steps => turn.searched = Some(turn.statement)
        /\ "llm_answer" \in Steps => turn.asked = Some(turn.standalone)

\* A later turn in which all four calls were made, the statement and the
\* standalone query differing from the words of the user.
C23_Witness ==
    /\ Answered /\ turn.preLen > 0
    /\ turn.trace = <<"llm_rewrite", "llm_optimize", "append_user", "search",
                      "get_answer", "llm_answer", "log", "append_assistant">>
    /\ turn.statement # turn.query /\ turn.standalone # turn.query
    /\ turn.statement # turn.standalone

\* C27: the chat history is a sequence of alternating user and assistant
\* messages that starts with a user message and has an even length, also
\* after turns in which an LLM call or the write of the log fails.
C27_HistoryAlternates ==
    /\ Len(chat_history) % 2 = 0
    /\ \A i \in 1..Len(chat_history) :
           chat_history[i].role = (IF i % 2 = 1 THEN "user" ELSE "assistant")

\* C28: a run without an input makes no LLM call and no search, writes no
\* line of the log and leaves the chat history as it was.
C28_NoInputNoEffect ==
    turn.op = "run" /\ turn.query = NoQuery =>
        /\ Steps \cap {"llm_rewrite", "llm_optimize", "llm_answer", "search", "log"} = {}
        /\ ~turn.logged
        /\ Len(chat_history) = turn.preLen

\* ------------------------------------------------------------- dimension
\* C24: a VectorIndex whose model initialized has the dimension of the
\* model's vectors as its embedding_dim from its construction on, whatever
\* embedding_dim it was given; so every structure _create_index makes, and
\* every faiss.index file it writes, has that dimension and no build fails
\* on a dimension mismatch; a VectorIndex whose model did not initialize
\* neither loads nor builds, and leaves the store alone.
C24_DimensionCorrected ==
    /\ embed_model => embedding_dim = ModelDim
    /\ dim_warned => embed_model
    /\ call.op = "build_or_load" =>
           /\ call.fault # "train_dim"
           /\ call.createCalled /\ call.ret # None => call.ret.faiss.d = ModelDim
           /\ "faiss" \in call.wrote /\ FaissReadable(store) => store.faiss.d = ModelDim
           /\ ~embed_model =>
                  /\ call.ret = None /\ ~call.loadTried /\ ~call.createCalled
                  /\ call.wrote = {} /\ store = call.pre

\* A VectorIndex given another dimension than the model's, which built and
\* persisted an index.
C24_Witness ==
    /\ dim_warned
    /\ call.op = "build_or_load" /\ call.createCalled /\ call.ret # None
    /\ call.wrote = {"meta", "faiss"}
    /\ store.faiss.d = ModelDim

\* ---------------------------------------------------------------- loader
\* C29: load_vector_index leaves the store as it finds it, whatever its
\* state: it starts no build, embeds nothing, trains nothing and writes no
\* file; it returns the index the store holds when that loads, and None
\* otherwise.
C29_LoaderReadOnly ==
    [][LoadVectorIndex =>
          /\ store' = store
          /\ nbuilds' = nbuilds
          /\ call'.op = "build_or_load" /\ call'.pre = store
          /\ call'.embeds = 0 /\ ~call'.trained /\ call'.wrote = {}
          /\ \/ call'.ret = None
             \/ /\ ValidStore(store)
                /\ call'.ret = MkIndex(read_index(store.faiss),
                                       load_index_from_storage(store.meta))
          /\ call'.loadTried /\ ValidStore(store) => call'.ret # None]_vars

\* The loader after a build that failed between its two writes: the store
\* holds the metadata and no faiss.index, the load fails, the build step is
\* reached with no nodes, and the store is as before.
C29_Witness ==
    /\ nbuilds = 1
    /\ call.op = "build_or_load" /\ call.nodes = <<>>
    /\ call.loadTried /\ call.createCalled /\ call.fault = "no_nodes"
    /\ call.pre.dir /\ MetaReadable(call.pre) /\ ~FaissReadable(call.pre)
    /\ store = call.pre /\ call.ret = None

\* ------------------------------------------------------- concurrent builds
\* Every process has written both its parts and returned its index.
AllDone == \A w \in Writers : writers[w].pc = "done"

\* C25: once the concurrent builds have all finished, the faiss.index file
\* and the metadata of the store are those of one and the same build.
C25_LastWriterWins ==
    AllDone =>
        \E w \in Writers :
            /\ store.faiss = write_index(writers[w].index.faiss)
            /\ store.meta = persist(writers[w].index.meta)

====
